---- MODULE Spec2Model ----
(***************************************************************************)
(* A model of trpc-logger: the level router behind a logger handle         *)
(* (loggedProcedure / withLogger / createLoggerMethod), the request         *)
(* middlewares (logging, error handling, rate limiting, auth logging,       *)
(* performance), combineMiddlewares, and the PerformanceMonitor.            *)
(***************************************************************************)
EXTENDS Integers, Sequences, FiniteSets, TLC

VARIABLES
    config,      \* the PipelineConfig given to loggedProcedure
    loggerName,  \* the call-site name bound by withLogger ("unbound" before)
    lastLog,     \* the last log call made through the handle
    sinkCalls,   \* the transport invocations of the last log call, in order
    logResult,   \* "none" | "returned" | "threw": how the last log call ended
    sections,    \* the config given to createComprehensiveMiddleware, and whether ctx has a logger
    mws,         \* the middlewares given to combineMiddlewares, in argument order
    terminal,    \* what the request's own next() does: "resolves" | "throws"
    cstatus,     \* "idle" | "calling" | "returning" | "settled"
    ctarget,     \* the call about to run: a frame, or TerminalNext
    cstack,      \* the middleware invocations awaiting their next(), innermost last
    ctrace,      \* what has been invoked so far: a middleware's position, 0 for the terminal next
    cerrLogs,    \* the error logs of the middlewares, in order
    cvalue,      \* the result or error travelling back to the caller
    now,         \* the clock read by Date.now()
    pmCfg,       \* the PerformanceMonitor's config
    pmLogger,    \* the logger the PerformanceMonitor was built with
    pmPhase,     \* "idle" | "running" | "ended": the monitored execution
    metrics,     \* the PerformanceMetrics object start returned
    pmLast,      \* the arguments of the last end call
    pmEvents,    \* the log calls the last end made, in order
    pmResult,    \* "none" | "returned" | "threw": how the last end call ended
    pmInput,     \* the input given to the last start call
    pmWrap,      \* the last call of a function returned by wrap: the function, its outcome
    mwKind,      \* which middleware factory built the middleware under call
    mwCfg,       \* the config the factory was given
    requests,    \* the rate limiter's table: key -> [count, resetTime]
    call,        \* the current call of the middleware: its opts and its position
    mwEvents,    \* what the current call has done so far: log calls, next(), its own throw
    nextSettled, \* how opts.next() settled in the current call
    mwOutcome,   \* how the current call settled
    requestIds,  \* the requestId values that the contexts of this application carry
    windows,     \* history: per key, when its current window opened and the calls made in it
    builders,    \* the ProcedureBuilder objects: middlewares, and the withLogger property if assigned
    binders,     \* history: the calls loggedProcedure(base, config) made, as [builder, config]
    chainRun,    \* the request made to the newest procedure, if any: what each stage saw in ctx.logger
    limiter,     \* one rate limiter under concurrent requests: its config, its table, the requests in flight
    validation   \* the call createValidatedPipelineConfig(config): how it ended, its errors, the trial calls it made

dispatchVars == <<config, loggerName, lastLog, sinkCalls, logResult>>

combineVars ==
    <<sections, mws, terminal, cstatus, ctarget, cstack, ctrace, cerrLogs, cvalue>>

clockVars == <<now>>

perfVars ==
    <<pmCfg, pmLogger, pmPhase, metrics, pmLast, pmEvents, pmResult, pmWrap, pmInput>>

mwVars ==
    <<mwKind, mwCfg, requests, call, mwEvents, nextSettled, mwOutcome, requestIds,
      windows>>

builderVars == <<builders, binders, chainRun>>

validationVars == <<validation>>

limiterVars == <<limiter>>

vars ==
    <<dispatchVars, combineVars, clockVars, perfVars, mwVars, builderVars,
      validationVars, limiterVars>>

\* What the actions of one component leave alone.
notDispatch ==
    <<combineVars, clockVars, perfVars, mwVars, builderVars, validationVars, limiterVars>>

notCombine ==
    <<dispatchVars, clockVars, perfVars, mwVars, builderVars, validationVars, limiterVars>>

notPerf ==
    <<dispatchVars, combineVars, mwVars, builderVars, validationVars, limiterVars>>

notMw ==
    <<dispatchVars, combineVars, perfVars, builderVars, validationVars, limiterVars>>

notBuilder ==
    <<dispatchVars, combineVars, clockVars, perfVars, mwVars, validationVars, limiterVars>>

notValidation == <<combineVars, clockVars, perfVars, mwVars, builderVars, limiterVars>>

notLimiter ==
    <<dispatchVars, combineVars, perfVars, mwVars, builderVars, validationVars>>

-----------------------------------------------------------------------------
(* Values *)

\* JavaScript's undefined: an omitted optional field or argument.
Absent == "absent"

Levels == {"error", "warn", "info", "debug"}

\* Bound: the longest pipeline list drawn.
MaxPipelines == 2

\* Call-site names given to withLogger(name?); the name may be omitted.
Names == {"getUser", Absent}

Messages == {"msg"}

Metas == {Absent, "meta"}

\* A transport either returns or fails by throwing synchronously.
Transports == {"ok", "throws"}

\* A pipeline entry: level and format are optional.
LoggerPipeline ==
    [level : Levels \cup {Absent}, format : {Absent, "fmt"}, transport : Transports]

SeqsUpTo(S, n) == UNION {[1..k -> S] : k \in 0..n}

PipelineConfig ==
    [pipelines : SeqsUpTo(LoggerPipeline, MaxPipelines),
     defaultLevel : Levels \cup {Absent}]

-----------------------------------------------------------------------------
(* The level router: createLoggerMethod *)

\* DefaultLevel with the config's defaultLevel ignored.
DefaultLevelAlwaysInfo(cfg) == "info"

\* const { pipelines, defaultLevel = 'info' } = config
DefaultLevel(cfg) ==
    IF cfg.defaultLevel = Absent THEN "info" ELSE cfg.defaultLevel

\* pipeline.level || defaultLevel
PipelineLevel(pipeline, defaultLevel) ==
    IF pipeline.level # Absent THEN pipeline.level ELSE defaultLevel

RECURSIVE FilterIdx(_, _, _, _)
\* pipelines.filter(p => (p.level || defaultLevel) === level), as the indices
\* of the entries kept, in list order, scanning from index i.
FilterIdx(pipelines, defaultLevel, level, i) ==
    IF i > Len(pipelines) THEN <<>>
    ELSE (IF PipelineLevel(pipelines[i], defaultLevel) = level
          THEN <<i>> ELSE <<>>)
         \o FilterIdx(pipelines, defaultLevel, level, i + 1)

LevelPipelines(cfg, level) ==
    FilterIdx(cfg.pipelines, DefaultLevel(cfg), level, 1)

\* level.toUpperCase()
ToUpperCase(level) ==
    CASE level = "error" -> "ERROR"
      [] level = "warn" -> "WARN"
      [] level = "info" -> "INFO"
      [] level = "debug" -> "DEBUG"

\* `${name}` of a template literal: undefined prints as "undefined".
NameText(name) == IF name = Absent THEN "undefined" ELSE name

\* FallbackText without toUpperCase().
FallbackTextAsGiven(level, name, message) ==
    <<"[", level, "] [", NameText(name), "] ", message>>

\* `[${level.toUpperCase()}] [${name}] ${message}`, as its pieces.
FallbackText(level, name, message) ==
    <<"[", ToUpperCase(level), "] [", NameText(name), "] ", message>>

\* pipeline.format(name, message, meta): the entry's own formatter.
FormatText(name, message, meta) == <<"fmt", name, message, meta>>

FormattedMessage(pipeline, level, name, message, meta) ==
    IF pipeline.format # Absent
    THEN FormatText(name, message, meta)
    ELSE FallbackText(level, name, message)

\* A format or transport called with (name, message, meta) throws: "throws"
\* does so on every call, "needsMeta" reads a property of meta and so throws
\* a TypeError when the log call gave no meta.
Throws(fn, meta) == fn = "throws" \/ (fn = "needsMeta" /\ meta = Absent)

RECURSIVE RunPipelines(_, _, _, _, _, _)
\* for (const pipeline of levelPipelines) { format; pipeline.transport(...) }
\* There is no try/catch: a format or a transport that throws ends the loop
\* and the exception leaves the logger method.
RunPipelines(pipelines, idxs, level, name, message, meta) ==
    IF idxs = <<>> THEN [calls |-> <<>>, threw |-> FALSE]
    ELSE LET i == Head(idxs)
             sent == [entry |-> i,
                     name |-> name,
                     text |-> FormattedMessage(pipelines[i], level, name, message, meta),
                     meta |-> meta]
         IN IF Throws(pipelines[i].format, meta)
            THEN [calls |-> <<>>, threw |-> TRUE]
            ELSE IF Throws(pipelines[i].transport, meta)
            THEN [calls |-> <<sent>>, threw |-> TRUE]
            ELSE LET rest == RunPipelines(pipelines, Tail(idxs), level, name, message, meta)
                 IN [calls |-> <<sent>> \o rest.calls, threw |-> rest.threw]

\* The function createLoggerMethod(level) returns, applied to (message, meta).
LoggerMethod(cfg, name, level, message, meta) ==
    RunPipelines(cfg.pipelines, LevelPipelines(cfg, level), level, name, message, meta)

-----------------------------------------------------------------------------
(* Specification of the level router *)

NoLog == [level |-> Absent, message |-> Absent, meta |-> Absent]

\* The other components at rest.
IdleCombine ==
    /\ sections = [logging |-> FALSE, errorHandling |-> FALSE, rateLimiting |-> 0,
                   performance |-> FALSE, authLogging |-> FALSE, logger |-> TRUE]
    /\ mws = <<>>
    /\ terminal = "resolves"
    /\ cstatus = "idle"
    /\ ctarget = Absent
    /\ cstack = <<>>
    /\ ctrace = <<>>
    /\ cerrLogs = <<>>
    /\ cvalue = Absent

IdleDispatch ==
    /\ config = [pipelines |-> <<>>, defaultLevel |-> Absent]
    /\ loggerName = "unbound"
    /\ lastLog = NoLog
    /\ sinkCalls = <<>>
    /\ logResult = "none"

\* new PerformanceMonitor(logger) with no config, not yet used.
IdlePerf ==
    /\ now = 0
    /\ pmCfg = [enabled |-> TRUE, logSlowQueries |-> TRUE, slowQueryThreshold |-> 1000,
                logMemoryUsage |-> FALSE, logInputOutput |-> FALSE]
    /\ pmLogger = [present |-> TRUE, throws |-> {}]
    /\ pmPhase = "idle"
    /\ metrics = Absent
    /\ pmLast = Absent
    /\ pmEvents = <<>>
    /\ pmResult = "none"
    /\ pmWrap = [fn |-> [async |-> FALSE, settles |-> [kind |-> "none", v |-> Absent]],
                 outcome |-> [kind |-> "none", v |-> Absent], ends |-> 0]
    /\ pmInput = Absent

\* createValidatedPipelineConfig not called.
NoValidation ==
    [phase |-> "none", errors |-> <<>>, carried |-> <<>>, trials |-> <<>>,
     result |-> [pipelines |-> <<>>, defaultLevel |-> Absent]]

IdleValidation == validation = NoValidation

\* No rate limiter built for concurrent requests.
IdleLimiter ==
    limiter = [cfg |-> [windowMs |-> 1, maxRequests |-> 1, keyGenerator |-> Absent],
               tables |-> <<>>, shadows |-> <<>>, windows |-> <<>>, reqs |-> <<>>]

\* No builder bound.
IdleBuilder ==
    /\ builders = <<>>
    /\ binders = {}
    /\ chainRun = [builder |-> 0, seen |-> <<>>]

\* No middleware built.
IdleMw ==
    /\ mwKind = "none"
    /\ mwCfg = Absent
    /\ requests = [k \in {} |-> Absent]
    /\ call = [pc |-> "idle"]
    /\ mwEvents = <<>>
    /\ nextSettled = [kind |-> "none", v |-> Absent]
    /\ mwOutcome = [kind |-> "none", v |-> Absent]
    /\ requestIds = {}
    /\ windows = [k \in {} |-> Absent]

InitDispatch ==
    /\ IdleBuilder
    /\ IdleValidation
    /\ IdleLimiter
    /\ IdleCombine
    /\ IdlePerf
    /\ IdleMw
    /\ config \in PipelineConfig
    /\ loggerName = "unbound"
    /\ lastLog = NoLog
    /\ sinkCalls = <<>>
    /\ logResult = "none"

\* procedure.withLogger(name): builds the handle that closes over name.
WithLogger(name) ==
    /\ loggerName = "unbound"
    /\ loggerName' = name
    /\ UNCHANGED <<config, lastLog, sinkCalls, logResult>>
    /\ UNCHANGED notDispatch

\* ctx.logger[level](message, meta)
LogCall(level, message, meta) ==
    /\ loggerName # "unbound"
    /\ LET r == LoggerMethod(config, loggerName, level, message, meta)
       IN /\ sinkCalls' = r.calls
          /\ logResult' = IF r.threw THEN "threw" ELSE "returned"
    /\ lastLog' = [level |-> level, message |-> message, meta |-> meta]
    /\ UNCHANGED <<config, loggerName>>
    /\ UNCHANGED notDispatch

NextDispatch ==
    \/ \E name \in Names : WithLogger(name)
    \/ \E level \in Levels, message \in Messages, meta \in Metas :
          LogCall(level, message, meta)

SpecDispatch == InitDispatch /\ [][NextDispatch]_vars

\* The indices of the entries whose effective level is the given level.
MatchingEntries(level) ==
    {i \in 1..Len(config.pipelines) :
        (IF config.pipelines[i].level # Absent THEN config.pipelines[i].level
         ELSE IF config.defaultLevel # Absent THEN config.defaultLevel
         ELSE "info") = level}

\* C1: a log call of severity L invokes the transport of exactly the entries
\* whose effective level equals L, once each, in list order, and no other.
C1_ExactLevelDispatch ==
    logResult # "none" =>
        /\ {sinkCalls[k].entry : k \in DOMAIN sinkCalls} = MatchingEntries(lastLog.level)
        /\ \A j, k \in DOMAIN sinkCalls : j < k => sinkCalls[j].entry < sinkCalls[k].entry

\* C5: a transport that throws never fails the log call: the logger method
\* always returns normally to its caller.
C5_SinkFailureNeverFailsLogCall ==
    logResult # "threw"

\* C14: an entry without a level has the config's defaultLevel as its
\* effective level, and "info" when the config has no defaultLevel: a call of
\* another severity never reaches it and a call of that severity reaches it
\* (unless an earlier entry's transport threw and ended the call); no action
\* modifies the config or its entries.
C14_UnleveledEntryTakesDefaultLevel ==
    /\ [](logResult # "none" =>
            \A i \in 1..Len(config.pipelines) :
               config.pipelines[i].level = Absent =>
                  LET effective == IF config.defaultLevel = Absent
                                   THEN "info" ELSE config.defaultLevel
                      invoked == {sinkCalls[k].entry : k \in DOMAIN sinkCalls}
                  IN /\ lastLog.level # effective => i \notin invoked
                     /\ (/\ lastLog.level = effective
                         /\ \A j \in invoked :
                               j < i => config.pipelines[j].transport # "throws")
                        => i \in invoked)
    /\ [][config' = config]_vars

\* A call at the config's defaultLevel "warn" reached two entries without a
\* level.
C14_Witness ==
    /\ config.defaultLevel = "warn"
    /\ Len(config.pipelines) = 2
    /\ config.pipelines[1].level = Absent
    /\ config.pipelines[2].level = Absent
    /\ lastLog.level = "warn"
    /\ Len(sinkCalls) = 2

\* C15: the text an entry's transport receives is format(name, message, meta)
\* when the entry has a format and otherwise "[LEVEL] [name] message" with the
\* severity in upper case; the transport also receives the call-site name and
\* the caller's metadata as they are.
C15_TextIsFormatOrFallback ==
    \A k \in DOMAIN sinkCalls :
       /\ sinkCalls[k].name = loggerName
       /\ sinkCalls[k].meta = lastLog.meta
       /\ sinkCalls[k].text =
             IF config.pipelines[sinkCalls[k].entry].format # Absent
             THEN <<"fmt", loggerName, lastLog.message, lastLog.meta>>
             ELSE <<"[",
                    CASE lastLog.level = "error" -> "ERROR"
                      [] lastLog.level = "warn" -> "WARN"
                      [] lastLog.level = "info" -> "INFO"
                      [] lastLog.level = "debug" -> "DEBUG",
                    "] [",
                    IF loggerName = Absent THEN "undefined" ELSE loggerName,
                    "] ", lastLog.message>>

\* One call reached an entry with a format and an entry without one.
C15_Witness ==
    /\ loggerName = "getUser"
    /\ lastLog.meta = "meta"
    /\ Len(sinkCalls) = 2
    /\ config.pipelines[sinkCalls[1].entry].format = Absent
    /\ config.pipelines[sinkCalls[2].entry].format # Absent
    /\ sinkCalls[1].text = <<"[", "DEBUG", "] [", "getUser", "] ", "msg">>

-----------------------------------------------------------------------------
(* Validation of a pipeline config: validation.ts *)

\* What a config may hold where a function is expected: nothing, a value that
\* is not callable, or a function. "ok" and "fmt" return (fmt a string),
\* "throws" throws on every call, "nonstring" returns a value that is not a
\* string, "needsMeta" works when it is given a meta and throws without one.
Callable == {"ok", "fmt", "throws", "nonstring", "needsMeta"}

\* Entries that pass validation.
GoodPipelines ==
    [name : {"p"}, level : {Absent, "error"}, format : {Absent, "fmt", "needsMeta"},
     transport : {"ok", "needsMeta"}]

GoodPipeline == [name |-> "p", level |-> Absent, format |-> Absent, transport |-> "ok"]

\* Entries with a defect: one each, and two with a pair of defects.
DefectivePipelines ==
    {[GoodPipeline EXCEPT !.name = n] : n \in {Absent, ""}}
    \cup {[GoodPipeline EXCEPT !.level = "verbose"]}
    \cup {[GoodPipeline EXCEPT !.format = f] : f \in {"notfn", "throws", "nonstring"}}
    \cup {[GoodPipeline EXCEPT !.transport = t] : t \in {Absent, "notfn", "throws"}}
    \cup {[GoodPipeline EXCEPT !.name = "", !.transport = "throws"],
          [GoodPipeline EXCEPT !.format = "throws", !.transport = "throws"]}

\* The configs given to createValidatedPipelineConfig.
RawConfigs ==
    [pipelines : SeqsUpTo(GoodPipelines \cup DefectivePipelines, MaxPipelines),
     defaultLevel : {Absent, "warn", "verbose"}]

\* One ValidationError. field is the path: for a Zod issue path.join('.'),
\* for a failed trial call `pipelines[${i}].${field}`; entry is the index i
\* (-1 when the path has none).
ValidationError(style, entry, key, message, value) ==
    [field |-> [style |-> style, entry |-> entry, key |-> key],
     message |-> message, value |-> value]

\* LogLevelSchema.optional()
LevelIssues(level, entry, key) ==
    IF level \in Levels \cup {Absent} THEN <<>>
    ELSE <<ValidationError("dotted", entry, key, "Invalid enum value", level)>>

\* z.string().min(1, 'Pipeline name is required')
NameIssues(name, entry) ==
    IF name = Absent
    THEN <<ValidationError("dotted", entry, "name", "Required", "undefined")>>
    ELSE IF name = ""
    THEN <<ValidationError("dotted", entry, "name", "Pipeline name is required", Absent)>>
    ELSE <<>>

\* z.function(): parse looks at typeof only, it does not call the function.
FunctionIssues(fn, optional, entry, key) ==
    IF fn \in Callable THEN <<>>
    ELSE IF fn = Absent
    THEN (IF optional THEN <<>>
          ELSE <<ValidationError("dotted", entry, key, "Required", "undefined")>>)
    ELSE <<ValidationError("dotted", entry, key, "Expected function", "string")>>

\* LoggerPipelineSchema.parse(pipeline): the issues, in the order of the keys.
PipelineIssues(pipeline, entry) ==
    NameIssues(pipeline.name, entry)
    \o LevelIssues(pipeline.level, entry, "level")
    \o FunctionIssues(pipeline.format, TRUE, entry, "format")
    \o FunctionIssues(pipeline.transport, FALSE, entry, "transport")

RECURSIVE EntriesIssues(_, _)
EntriesIssues(pipelines, i) ==
    IF i > Len(pipelines) THEN <<>>
    ELSE PipelineIssues(pipelines[i], i - 1) \o EntriesIssues(pipelines, i + 1)

\* PipelineConfigSchema.parse(config): the issues Zod reports.
ConfigIssues(cfg) ==
    (IF Len(cfg.pipelines) < 1
     THEN <<ValidationError("dotted", -1, "pipelines",
                            "At least one pipeline is required", Absent)>>
     ELSE <<>>)
    \o EntriesIssues(cfg.pipelines, 1)
    \o LevelIssues(cfg.defaultLevel, -1, "defaultLevel")

ValidationResult(errors) == [isValid |-> errors = <<>>, errors |-> errors]

validatePipelineConfig(cfg) == ValidationResult(ConfigIssues(cfg))

validatePipeline(pipeline) == ValidationResult(PipelineIssues(pipeline, -1))

\* testTransport that looks at the type only and makes no trial call.
testTransportTypeOnly(transport) ==
    IF transport \notin Callable
    THEN [called |-> FALSE,
          errors |-> <<[field |-> "transport", message |-> "Transport must be a function",
                        value |-> transport]>>]
    ELSE [called |-> FALSE, errors |-> <<>>]

\* testTransport: transport('test', 'test message', { test: true }).
testTransport(transport) ==
    IF transport \notin Callable
    THEN [called |-> FALSE,
          errors |-> <<[field |-> "transport", message |-> "Transport must be a function",
                        value |-> transport]>>]
    ELSE [called |-> TRUE,
          errors |-> IF Throws(transport, "meta")
                     THEN <<[field |-> "transport", message |-> "Transport function failed",
                             value |-> transport]>>
                     ELSE <<>>]

\* testFormat: format('test', 'test message', { test: true }) must return a string.
testFormat(format) ==
    IF format \notin Callable
    THEN [called |-> FALSE,
          errors |-> <<[field |-> "format", message |-> "Format must be a function",
                        value |-> format]>>]
    ELSE [called |-> TRUE,
          errors |-> IF Throws(format, "meta")
                     THEN <<[field |-> "format", message |-> "Format function failed",
                             value |-> format]>>
                     ELSE IF format \in {"ok", "nonstring"}
                     THEN <<[field |-> "format",
                             message |-> "Format function must return a string",
                             value |-> format]>>
                     ELSE <<>>]

\* errors.push({ field: `pipelines[${i}].${error.field}`, ... }) for each error.
Indexed(errors, entry) ==
    [k \in DOMAIN errors |->
        ValidationError("indexed", entry, errors[k].field, errors[k].message,
                        errors[k].value)]

\* One round of the loop of validatePipelineConfigComprehensive, for entry i
\* (counted from 0): its errors and the trial calls it made.
CheckEntry(pipeline, i) ==
    LET own == validatePipeline(pipeline)
        tt == IF pipeline.transport # Absent THEN testTransport(pipeline.transport)
              ELSE [called |-> FALSE, errors |-> <<>>]
        tf == IF pipeline.format # Absent THEN testFormat(pipeline.format)
              ELSE [called |-> FALSE, errors |-> <<>>]
    IN [errors |-> [k \in DOMAIN own.errors |->
                       ValidationError("indexed", i, own.errors[k].field.key,
                                       own.errors[k].message, own.errors[k].value)]
                   \o Indexed(tt.errors, i) \o Indexed(tf.errors, i),
        trials |-> (IF tt.called THEN <<[entry |-> i, fn |-> "transport"]>> ELSE <<>>)
                   \o (IF tf.called THEN <<[entry |-> i, fn |-> "format"]>> ELSE <<>>)]

RECURSIVE CheckEntries(_, _)
CheckEntries(pipelines, i) ==
    IF i > Len(pipelines) THEN [errors |-> <<>>, trials |-> <<>>]
    ELSE LET first == CheckEntry(pipelines[i], i - 1)
             rest == CheckEntries(pipelines, i + 1)
         IN [errors |-> first.errors \o rest.errors,
             trials |-> first.trials \o rest.trials]

\* validatePipelineConfigComprehensive, with the trial calls it made.
validatePipelineConfigComprehensive(cfg) ==
    LET basicValidation == validatePipelineConfig(cfg)
    IN IF ~basicValidation.isValid
       THEN [isValid |-> FALSE, errors |-> basicValidation.errors, trials |-> <<>>]
       ELSE LET r == CheckEntries(cfg.pipelines, 1)
            IN [isValid |-> r.errors = <<>>, errors |-> r.errors, trials |-> r.trials]

\* JSON.stringify(validation.errors, null, 2): a value that is undefined or a
\* function is left out of its object.
Stringified(errors) ==
    [k \in DOMAIN errors |->
        [errors[k] EXCEPT !.value = IF @ \in Callable THEN Absent ELSE @]]

\* No config: the phase says whether createValidatedPipelineConfig returned one.
NoConfig == [pipelines |-> <<>>, defaultLevel |-> Absent]

InitValidation ==
    /\ IdleBuilder
    /\ IdleCombine
    /\ IdlePerf
    /\ IdleMw
    /\ IdleValidation
    /\ IdleLimiter
    /\ config \in RawConfigs
    /\ loggerName = "unbound"
    /\ lastLog = NoLog
    /\ sinkCalls = <<>>
    /\ logResult = "none"

\* const checked = createValidatedPipelineConfig(config)
CreateValidatedPipelineConfig ==
    /\ validation.phase = "none"
    /\ LET v == validatePipelineConfigComprehensive(config)
       IN validation' =
            IF ~v.isValid
            THEN [phase |-> "threw", errors |-> v.errors,
                  carried |-> Stringified(v.errors), trials |-> v.trials,
                  result |-> NoConfig]
            ELSE [phase |-> "returned", errors |-> <<>>, carried |-> <<>>,
                  trials |-> v.trials, result |-> config]
    /\ UNCHANGED dispatchVars
    /\ UNCHANGED notValidation

\* loggedProcedure(t.procedure, checked).withLogger(name): reached only when
\* createValidatedPipelineConfig returned.
BindValidated(name) ==
    /\ validation.phase = "returned"
    /\ WithLogger(name)

NextValidation ==
    \/ CreateValidatedPipelineConfig
    \/ \E name \in Names : BindValidated(name)
    \/ \E level \in Levels, message \in Messages, meta \in Metas :
          LogCall(level, message, meta)

SpecValidation == InitValidation /\ [][NextValidation]_vars

\* C18: createValidatedPipelineConfig(config) throws iff comprehensive
\* validation reports the config invalid, which is the case iff the list is
\* empty, or an entry has no name or an empty one, a level that is not one of
\* the four, a transport that is missing, not callable or throws on the trial
\* call, a format that is not callable, throws on the trial call or returns a
\* non-string, or defaultLevel is not one of the four. The error it throws
\* carries one {field, message, value} error for every defect the failing
\* stage found; otherwise the call returns the config it was given, and the
\* config is never modified.
C18_ThrowsIffValidationReportsInvalid ==
    /\ [](validation.phase # "none" =>
            LET ps == config.pipelines
                misnamed(q) == q.name \in {Absent, ""}
                mislevelled(q) == q.level \notin Levels \cup {Absent}
                badTransport(q) == q.transport \notin Callable \/ q.transport = "throws"
                badFormat(q) == q.format \in {"notfn", "throws", "nonstring"}
                invalid == \/ Len(ps) = 0
                           \/ config.defaultLevel \notin Levels \cup {Absent}
                           \/ \E i \in DOMAIN ps :
                                 \/ misnamed(ps[i]) \/ mislevelled(ps[i])
                                 \/ badTransport(ps[i]) \/ badFormat(ps[i])
                reported == ~validatePipelineConfigComprehensive(config).isValid
                names(style, i, key) ==
                    \E k \in DOMAIN validation.carried :
                        validation.carried[k].field
                           = [style |-> style, entry |-> i - 1, key |-> key]
                basic == \E k \in DOMAIN validation.carried :
                            validation.carried[k].field.style = "dotted"
            IN /\ reported <=> invalid
               /\ validation.phase = "threw" <=> reported
               /\ validation.phase = "threw" =>
                     /\ validation.carried # <<>>
                     /\ Len(validation.carried) = Len(validation.errors)
                     /\ \A k \in DOMAIN validation.carried :
                           /\ validation.carried[k].field = validation.errors[k].field
                           /\ validation.carried[k].message = validation.errors[k].message
                     /\ basic => \A i \in DOMAIN ps :
                           /\ misnamed(ps[i]) => names("dotted", i, "name")
                           /\ mislevelled(ps[i]) => names("dotted", i, "level")
                           /\ ps[i].transport \notin Callable
                                 => names("dotted", i, "transport")
                           /\ ps[i].format = "notfn" => names("dotted", i, "format")
                     /\ ~basic => \A i \in DOMAIN ps :
                           /\ badTransport(ps[i]) => names("indexed", i, "transport")
                           /\ badFormat(ps[i]) => names("indexed", i, "format")
               /\ validation.phase = "returned" =>
                     /\ validation.result = config
                     /\ validation.errors = <<>>)
    /\ [][config' = config]_vars

\* A config whose two entries each fail a trial call: the error thrown names
\* the transport of the first and the format of the second.
C18_Witness ==
    /\ validation.phase = "threw"
    /\ Len(config.pipelines) = 2
    /\ config.pipelines[1].transport = "throws"
    /\ config.pipelines[2].format = "nonstring"
    /\ Len(validation.carried) = 2
    /\ validation.carried[1].field = [style |-> "indexed", entry |-> 0, key |-> "transport"]
    /\ validation.carried[2].field = [style |-> "indexed", entry |-> 1, key |-> "format"]
    /\ validation.trials = <<[entry |-> 0, fn |-> "transport"],
                             [entry |-> 1, fn |-> "transport"],
                             [entry |-> 1, fn |-> "format"]>>

\* C19: a handle built from a config that validation accepted dispatches
\* every log call without raising.
C19_AcceptedConfigDispatchesWithoutRaising ==
    (validation.phase = "returned" /\ logResult # "none") => logResult = "returned"

\* C19 for the log calls that give a meta, as the trial calls of validation do.
C19_AcceptedConfigDispatchesCallsWithMeta ==
    (validation.phase = "returned" /\ logResult # "none" /\ lastLog.meta # Absent)
        => logResult = "returned"

-----------------------------------------------------------------------------
(* combineMiddlewares *)

\* Bound: the most middlewares given to combineMiddlewares.
MaxMws == 2

\* Bound: the depth of nested calls the engine's call stack holds; one call
\* more fails with a RangeError (the middlewares call next() synchronously).
MaxDepth == 4

\* A combined middleware calls its next once:
\*   "plain":   return opts.next()
\*   "logging": try { return await opts.next() } catch (e) { log e; throw e }
MiddlewareKinds == {"plain", "logging"}

\* opts_0 is the opts of the request; iteration k of the loop builds
\* opts_k = {...opts_(k-1), next: async () => middleware_k(currentOpts)}.
\* A frame is middleware mw running with opts_opts; mw 0 is the request's own next.
TerminalNext == [mw |-> 0, opts |-> 0]

\* The opts the closure of iteration k passes on: it reads the variable
\* currentOpts when it is called, and the variable is declared once, outside
\* the loop, so by then it holds opts_n.
CapturedOpts(k, n) == n

\* opts_j.next(), with n middlewares combined.
NextOf(j, n) ==
    IF j = 0 THEN TerminalNext ELSE [mw |-> j, opts |-> CapturedOpts(j, n)]

\* return currentOpts.next() after the loop: currentOpts is opts_n.
ComposedEntry(n) == NextOf(n, n)

ResultOf(v) == [kind |-> "result", v |-> v]

ErrorOf(v) == [kind |-> "error", v |-> v]

\* combineMiddlewares called by the application itself: no config of
\* createComprehensiveMiddleware; the requests carry a logger.
NoSections ==
    [logging |-> FALSE, errorHandling |-> FALSE, rateLimiting |-> 0,
     performance |-> FALSE, authLogging |-> FALSE, logger |-> TRUE]

\* The middlewares that log the error their next() failed with, when ctx has
\* a logger.
ErrorLoggingKinds == {"logging", "errorHandling", "performance"}

\* The rate limiter, called once more within one request: each call counts
\* for the same key in the same window, and the call whose count exceeds
\* maxRequests is rejected (sections.rateLimiting is maxRequests).
RateLimitReached ==
    /\ mws[ctarget.mw] = "rateLimiting"
    /\ sections.logger
    /\ Cardinality({k \in DOMAIN ctrace : ctrace[k] = ctarget.mw}) + 1
          > sections.rateLimiting

InitCombine ==
    /\ IdleBuilder
    /\ IdleValidation
    /\ IdleLimiter
    /\ IdleDispatch
    /\ IdlePerf
    /\ IdleMw
    /\ sections = NoSections
    /\ mws \in SeqsUpTo(MiddlewareKinds, MaxMws)
    /\ terminal \in {"resolves", "throws"}
    /\ cstatus = "idle"
    /\ ctarget = Absent
    /\ cstack = <<>>
    /\ ctrace = <<>>
    /\ cerrLogs = <<>>
    /\ cvalue = Absent

\* The composed middleware is invoked with the request's opts.
CombineCall ==
    /\ cstatus = "idle"
    /\ cstatus' = "calling"
    /\ ctarget' = ComposedEntry(Len(mws))
    /\ UNCHANGED <<sections, mws, terminal, cstack, ctrace, cerrLogs, cvalue>>
    /\ UNCHANGED notCombine

\* A next() closure runs its middleware, which calls the next of its own opts.
InvokeMiddleware ==
    /\ cstatus = "calling"
    /\ ctarget.mw # 0
    /\ Len(cstack) < MaxDepth
    /\ ~RateLimitReached
    /\ cstack' = Append(cstack, ctarget)
    /\ ctrace' = Append(ctrace, ctarget.mw)
    /\ ctarget' = NextOf(ctarget.opts, Len(mws))
    /\ UNCHANGED <<sections, mws, terminal, cstatus, cerrLogs, cvalue>>
    /\ UNCHANGED notCombine

\* The call stack is full: the call throws a RangeError into its caller.
StackOverflow ==
    /\ cstatus = "calling"
    /\ ctarget.mw # 0
    /\ Len(cstack) = MaxDepth
    /\ cvalue' = ErrorOf("RangeError")
    /\ cstatus' = "returning"
    /\ UNCHANGED <<sections, mws, terminal, ctarget, cstack, ctrace, cerrLogs>>
    /\ UNCHANGED notCombine

\* The request's own next() runs the rest of the request and settles.
InvokeTerminal ==
    /\ cstatus = "calling"
    /\ ctarget.mw = 0
    /\ ctrace' = Append(ctrace, 0)
    /\ cvalue' = IF terminal = "resolves" THEN ResultOf("r") ELSE ErrorOf("e")
    /\ cstatus' = "returning"
    /\ UNCHANGED <<sections, mws, terminal, ctarget, cstack, cerrLogs>>
    /\ UNCHANGED notCombine

\* next() settles in the innermost waiting middleware: a logging middleware
\* logs a failure; both kinds pass the result or the error on unchanged.
ReturnToMiddleware ==
    /\ cstatus = "returning"
    /\ cstack # <<>>
    /\ LET frame == cstack[Len(cstack)]
       IN cerrLogs' = IF /\ mws[frame.mw] \in ErrorLoggingKinds
                         /\ sections.logger
                         /\ cvalue.kind = "error"
                      THEN Append(cerrLogs, [mw |-> frame.mw, error |-> cvalue.v])
                      ELSE cerrLogs
    /\ cstack' = SubSeq(cstack, 1, Len(cstack) - 1)
    /\ UNCHANGED <<sections, mws, terminal, cstatus, ctarget, ctrace, cvalue>>
    /\ UNCHANGED notCombine

\* The rate limiter rejects the call: it throws without calling its next.
RateLimited ==
    /\ cstatus = "calling"
    /\ ctarget.mw # 0
    /\ Len(cstack) < MaxDepth
    /\ RateLimitReached
    /\ ctrace' = Append(ctrace, ctarget.mw)
    /\ cvalue' = ErrorOf("RateLimit")
    /\ cstatus' = "returning"
    /\ UNCHANGED <<sections, mws, terminal, ctarget, cstack, cerrLogs>>
    /\ UNCHANGED notCombine

\* The promise of the composed call settles.
Settle ==
    /\ cstatus = "returning"
    /\ cstack = <<>>
    /\ cstatus' = "settled"
    /\ UNCHANGED <<sections, mws, terminal, ctarget, cstack, ctrace, cerrLogs, cvalue>>
    /\ UNCHANGED notCombine

NextCombine ==
    \/ CombineCall
    \/ InvokeMiddleware
    \/ StackOverflow
    \/ InvokeTerminal
    \/ ReturnToMiddleware
    \/ Settle

SpecCombine == InitCombine /\ [][NextCombine]_vars

\* C2: with N >= 1 middlewares, each calling its next once, one composed call
\* invokes mw1, mw2, ..., mwN and then the terminal next, each exactly once and
\* in that order.
C2_ChainInvokesEachOnceInOrder ==
    Len(mws) >= 1 =>
        /\ Len(ctrace) <= Len(mws) + 1
        /\ \A k \in DOMAIN ctrace : ctrace[k] = (IF k <= Len(mws) THEN k ELSE 0)
        /\ cstatus = "settled" => Len(ctrace) = Len(mws) + 1

\* C3: combineMiddlewares(mwA, mwB), both logging on error and re-raising,
\* over a terminal handler that throws e: each of mwA and mwB logs e once and
\* the composed call fails with e itself.
C3_BothObserveErrorAndItPropagates ==
    (/\ Len(mws) = 2
     /\ \A i \in 1..2 : mws[i] = "logging"
     /\ terminal = "throws"
     /\ cstatus = "settled")
    => /\ cvalue = ErrorOf("e")
       /\ \A i \in 1..2 :
             Cardinality({k \in DOMAIN cerrLogs :
                             cerrLogs[k] = [mw |-> i, error |-> "e"]}) = 1
       /\ Len(cerrLogs) = 2

\* One composed call that is not held up: the engine runs every call and
\* every return that is ready (the middlewares call next() without waiting
\* for anything else).
SpecCombineFair == SpecCombine /\ WF_vars(NextCombine)

\* C22: one composed call, over middlewares that call next once and a terminal
\* next that completes, eventually settles with the terminal next reached.
C22_ComposedCallSettlesThroughTerminal ==
    <>(cstatus = "settled" /\ \E k \in DOMAIN ctrace : ctrace[k] = 0)

\* C22 without the terminal: the composed call eventually settles.
C22_ComposedCallSettles == <>(cstatus = "settled")

-----------------------------------------------------------------------------
(* Values that are thrown, and loggers *)

\* Error objects: a plain Error, a ZodError, a TRPCError with code UNAUTHORIZED.
ErrorObjects == {"e", "zod", "unauth"}

\* What a procedure may throw: an Error object, a string, or null.
Thrown == ErrorObjects \cup {"str", "null"}

\* Errors raised by the code itself or by the engine.
RaisedErrors == {"RateLimit", "SinkError", "TypeError", "RangeError"}

\* The number 0, as a value of a context field.
Zero == "0 (number)"

\* if (v), v || w: undefined, null, the empty string and 0 are falsy.
Truthy(v) == v \notin {Absent, "null", "", Zero}

\* A plain Error that was given a code: e.code = 'UNAUTHORIZED'.
CodedErrors == {"ecode"}

\* v instanceof Error
IsErrorInstance(v) == v \in ErrorObjects \cup CodedErrors \cup RaisedErrors

\* v.message: the message of an Error object; a string has none.
MessageOf(v) == IF IsErrorInstance(v) THEN <<"message", v>> ELSE Absent

\* v.stack
StackOf(v) == IF IsErrorInstance(v) THEN <<"stack", v>> ELSE Absent

\* A Logger: each method records the call; it throws when a sink it reaches
\* throws (LoggerMethod has no try/catch), given here as the levels that throw.
Loggers == [present : {TRUE}, throws : SUBSET Levels]

\* ctx.logger is undefined.
NoLogger == [present |-> FALSE, throws |-> {}]

NoMeta ==
    [duration |-> Absent, error |-> Absent, stack |-> Absent, input |-> Absent,
     output |-> Absent, memoryUsage |-> Absent, key |-> Absent, count |-> Absent]

RECURSIVE RunLogs(_, _)
\* The logger calls of a block, in order, up to the first that throws: the
\* calls made, whether one threw, and what it threw (calling a method of an
\* undefined logger is a TypeError).
RunLogs(logger, calls) ==
    IF calls = <<>> THEN [events |-> <<>>, threw |-> FALSE, err |-> Absent]
    ELSE IF ~logger.present
         THEN [events |-> <<>>, threw |-> TRUE, err |-> "TypeError"]
         ELSE IF Head(calls).level \in logger.throws
              THEN [events |-> <<Head(calls)>>, threw |-> TRUE, err |-> "SinkError"]
              ELSE LET rest == RunLogs(logger, Tail(calls))
                   IN [events |-> <<Head(calls)>> \o rest.events,
                       threw |-> rest.threw, err |-> rest.err]

-----------------------------------------------------------------------------
(* PerformanceMonitor *)

\* Bound: the clock runs from 0 to MaxTime.
MaxTime == 2

\* Bound: slowQueryThreshold is drawn from 0..MaxThreshold.
MaxThreshold == 1

PerformanceConfig ==
    [enabled : BOOLEAN, logSlowQueries : BOOLEAN, slowQueryThreshold : 0..MaxThreshold,
     logMemoryUsage : BOOLEAN, logInputOutput : BOOLEAN]

ProcedureNames == {"proc"}

Inputs == {Absent, "in"}

Outputs == {Absent, "out"}

\* start that keeps the input whatever logInputOutput says.
MonitorStartKeepsInput(cfg, t, procedureName, input) ==
    IF ~cfg.enabled
    THEN [procedureName |-> procedureName, startTime |-> 0, endTime |-> Absent,
          duration |-> Absent, memoryUsage |-> Absent, input |-> Absent,
          output |-> Absent, error |-> Absent]
    ELSE [procedureName |-> procedureName, startTime |-> t, endTime |-> Absent,
          duration |-> Absent,
          memoryUsage |-> IF cfg.logMemoryUsage THEN "snapshot" ELSE Absent,
          input |-> input,
          output |-> Absent, error |-> Absent]

\* start(procedureName, input)
MonitorStart(cfg, t, procedureName, input) ==
    IF ~cfg.enabled
    THEN [procedureName |-> procedureName, startTime |-> 0, endTime |-> Absent,
          duration |-> Absent, memoryUsage |-> Absent, input |-> Absent,
          output |-> Absent, error |-> Absent]
    ELSE [procedureName |-> procedureName, startTime |-> t, endTime |-> Absent,
          duration |-> Absent,
          memoryUsage |-> IF cfg.logMemoryUsage THEN "snapshot" ELSE Absent,
          input |-> IF cfg.logInputOutput THEN input ELSE Absent,
          output |-> Absent, error |-> Absent]

\* duration || 0: end has set duration to a number by the time it is read,
\* and the only falsy number it can be is 0.
DurationOrZero(duration) ==
    IF duration = 0 THEN 0 ELSE duration

\* Mutant of ShouldLogSlowQuery: a duration equal to the threshold counts as slow.
ShouldLogSlowQueryAtThreshold(cfg, duration) ==
    cfg.logSlowQueries /\ duration >= cfg.slowQueryThreshold

\* shouldLogSlowQuery(duration)
ShouldLogSlowQuery(cfg, duration) ==
    cfg.logSlowQueries /\ duration > cfg.slowQueryThreshold

\* The completion log of logPerformance.
CompletionLog(cfg, m) ==
    [level |-> IF ShouldLogSlowQuery(cfg, DurationOrZero(m.duration))
               THEN "warn" ELSE "debug",
     message |-> <<"Procedure ", m.procedureName, " completed">>,
     meta |-> [NoMeta EXCEPT !.duration = m.duration,
                             !.input = m.input,
                             !.output = m.output,
                             !.memoryUsage = m.memoryUsage]]

\* The failure log of logPerformance.
FailureLog(m) ==
    [level |-> "error",
     message |-> <<"Procedure ", m.procedureName, " failed">>,
     meta |-> [NoMeta EXCEPT !.duration = m.duration,
                             !.error = MessageOf(m.error),
                             !.stack = StackOf(m.error),
                             !.input = m.input,
                             !.memoryUsage = m.memoryUsage]]

\* Mutant of LogPerformance: the error branch does not return, and the
\* completion log follows the failure log.
LogPerformanceNoReturn(cfg, m) ==
    IF Truthy(m.error)
    THEN <<FailureLog(m), CompletionLog(cfg, m)>>
    ELSE <<CompletionLog(cfg, m)>>

\* logPerformance(metrics): the logger calls it makes, in order.
LogPerformance(cfg, m) ==
    IF Truthy(m.error)
    THEN <<FailureLog(m)>>
    ELSE <<CompletionLog(cfg, m)>>

\* end without its `if (!this.config.enabled) return`.
MonitorEndUnguarded(cfg, logger, m, t, output, error) ==
    LET m2 == [m EXCEPT !.endTime = t,
                        !.duration = t - m.startTime,
                        !.output = IF cfg.logInputOutput THEN output ELSE Absent,
                        !.error = error,
                        !.memoryUsage = IF cfg.logMemoryUsage
                                        THEN "snapshotWithDiff" ELSE m.memoryUsage]
        r == RunLogs(logger, LogPerformance(cfg, m2))
    IN [metrics |-> m2, events |-> r.events, threw |-> r.threw]

\* end(metrics, output, error) at time t: the metrics object as it leaves, the
\* logger calls made, and whether a logger call threw out of end.
MonitorEnd(cfg, logger, m, t, output, error) ==
    IF ~cfg.enabled THEN [metrics |-> m, events |-> <<>>, threw |-> FALSE]
    ELSE LET m2 == [m EXCEPT !.endTime = t,
                             !.duration = t - m.startTime,
                             !.output = IF cfg.logInputOutput THEN output ELSE Absent,
                             !.error = error,
                             !.memoryUsage = IF cfg.logMemoryUsage
                                             THEN "snapshotWithDiff" ELSE m.memoryUsage]
             r == RunLogs(logger, LogPerformance(cfg, m2))
         IN [metrics |-> m2, events |-> r.events, threw |-> r.threw]

\* The loggers a monitor is built with: the monitor calls logger.error,
\* logger.warn and logger.debug only.
MonitorLoggers == {l \in Loggers : l.throws \subseteq {"error", "warn", "debug"}}

\* The functions given to wrap: one that returns or throws, or one that
\* returns a promise, which resolves or rejects. The wrapper passes what was
\* thrown to end and throws it again; end tells an Error object, another
\* truthy value and a falsy value apart.
WrappedFunctions ==
    [async : BOOLEAN,
     settles : {ResultOf(o) : o \in Outputs \ {Absent}}
               \cup {ErrorOf(e) : e \in {"e", "str", "null"}}]

\* No wrapped function called yet.
NoWrap ==
    [fn |-> [async |-> FALSE, settles |-> [kind |-> "none", v |-> Absent]],
     outcome |-> [kind |-> "none", v |-> Absent], ends |-> 0]

\* The wrapper once fn has returned, thrown or settled: this.end(metrics,
\* output) on success, and this.end(metrics, undefined, error) in the catch,
\* which also catches what the first end threw. Yields the log calls, the
\* metrics, the outcome of the wrapper and the number of end calls.
WrapEnd(cfg, logger, m, t, settled) ==
    IF settled.kind = "error"
    THEN LET r == MonitorEnd(cfg, logger, m, t, Absent, settled.v)
         IN [events |-> r.events, metrics |-> r.metrics, ends |-> 1,
             outcome |-> ErrorOf(IF r.threw THEN "SinkError" ELSE settled.v)]
    ELSE LET r == MonitorEnd(cfg, logger, m, t, settled.v, Absent)
         IN IF ~r.threw
            THEN [events |-> r.events, metrics |-> r.metrics, ends |-> 1,
                  outcome |-> settled]
            ELSE LET c == MonitorEnd(cfg, logger, r.metrics, t, Absent, "SinkError")
                 IN [events |-> r.events \o c.events, metrics |-> c.metrics,
                     ends |-> 2, outcome |-> ErrorOf("SinkError")]

InitPerf ==
    /\ IdleBuilder
    /\ IdleValidation
    /\ IdleLimiter
    /\ IdleDispatch
    /\ IdleCombine
    /\ IdleMw
    /\ now = 0
    /\ pmCfg \in PerformanceConfig
    /\ pmLogger \in MonitorLoggers
    /\ pmPhase = "idle"
    /\ metrics = Absent
    /\ pmLast = Absent
    /\ pmEvents = <<>>
    /\ pmResult = "none"
    /\ pmWrap = NoWrap
    /\ pmInput = Absent

\* Time passes.
Tick ==
    /\ now < MaxTime
    /\ now' = now + 1
    /\ UNCHANGED <<dispatchVars, combineVars, perfVars, mwVars, builderVars,
                   validationVars, limiterVars>>

\* const metrics = monitor.start(procedureName, input)
PmStart(procedureName, input) ==
    /\ pmPhase \in {"idle", "ended", "wrapped"}
    /\ pmWrap' = NoWrap
    /\ pmInput' = input
    /\ metrics' = MonitorStart(pmCfg, now, procedureName, input)
    /\ pmPhase' = "running"
    /\ pmLast' = Absent
    /\ pmEvents' = <<>>
    /\ pmResult' = "none"
    /\ UNCHANGED <<pmCfg, pmLogger, now>>
    /\ UNCHANGED notPerf

\* monitor.end(metrics, output, error)
PmEnd(output, error) ==
    /\ pmPhase = "running"
    /\ LET r == MonitorEnd(pmCfg, pmLogger, metrics, now, output, error)
       IN /\ metrics' = r.metrics
          /\ pmEvents' = r.events
          /\ pmResult' = IF r.threw THEN "threw" ELSE "returned"
    /\ pmLast' = [output |-> output, error |-> error]
    /\ pmPhase' = "ended"
    /\ UNCHANGED <<pmCfg, pmLogger, now, pmWrap, pmInput>>
    /\ UNCHANGED notPerf

\* monitor.wrap(procedureName, fn)(args): a disabled monitor's wrap returned
\* fn itself; otherwise the wrapper starts, calls fn, and ends at once unless
\* fn returned a promise.
PmWrapCall(procedureName, fn, input) ==
    /\ pmPhase \in {"idle", "ended", "wrapped"}
    /\ pmLast' = Absent
    /\ pmResult' = "none"
    /\ pmInput' = IF pmCfg.enabled THEN input ELSE Absent
    /\ IF ~pmCfg.enabled
       THEN /\ pmWrap' = [fn |-> fn, outcome |-> fn.settles, ends |-> 0]
            /\ pmPhase' = "wrapped"
            /\ pmEvents' = <<>>
            /\ UNCHANGED metrics
       ELSE IF fn.async
       THEN /\ pmWrap' = [fn |-> fn, outcome |-> [kind |-> "none", v |-> Absent],
                          ends |-> 0]
            /\ pmPhase' = "pending"
            /\ pmEvents' = <<>>
            /\ metrics' = MonitorStart(pmCfg, now, procedureName, input)
       ELSE LET e == WrapEnd(pmCfg, pmLogger,
                             MonitorStart(pmCfg, now, procedureName, input), now,
                             fn.settles)
            IN /\ pmWrap' = [fn |-> fn, outcome |-> e.outcome, ends |-> e.ends]
               /\ pmPhase' = "wrapped"
               /\ pmEvents' = e.events
               /\ metrics' = e.metrics
    /\ UNCHANGED <<pmCfg, pmLogger, now>>
    /\ UNCHANGED notPerf

\* The promise fn returned settles: the .then / .catch handlers of the wrapper.
PmWrapSettles ==
    /\ pmPhase = "pending"
    /\ LET e == WrapEnd(pmCfg, pmLogger, metrics, now, pmWrap.fn.settles)
       IN /\ pmWrap' = [pmWrap EXCEPT !.outcome = e.outcome, !.ends = e.ends]
          /\ pmEvents' = e.events
          /\ metrics' = e.metrics
    /\ pmPhase' = "wrapped"
    /\ UNCHANGED <<pmCfg, pmLogger, now, pmLast, pmResult, pmInput>>
    /\ UNCHANGED notPerf

NextPerf ==
    \/ Tick
    \/ \E procedureName \in ProcedureNames, input \in Inputs :
          PmStart(procedureName, input)
    \/ \E output \in Outputs, error \in Thrown \cup {Absent} : PmEnd(output, error)
    \/ \E procedureName \in ProcedureNames, fn \in WrappedFunctions, input \in Inputs :
          PmWrapCall(procedureName, fn, input)
    \/ PmWrapSettles

SpecPerf == InitPerf /\ [][NextPerf]_vars

\* The last call was end, on an enabled monitor.
EndedEnabled == pmPhase = "ended" /\ pmCfg.enabled

C10_EndWithoutErrorLogsWarnIffSlow ==
    (EndedEnabled /\ ~Truthy(pmLast.error)) =>
        /\ Len(pmEvents) = 1
        /\ pmEvents[1].level \in {"warn", "debug"}
        /\ pmEvents[1].level = "warn" <=>
              (pmCfg.logSlowQueries /\ metrics.endTime - metrics.startTime > pmCfg.slowQueryThreshold)

\* C10 is exercised at the boundary: duration equal to a positive threshold,
\* slow-query logging on, logged at debug.
C10_Witness ==
    /\ EndedEnabled
    /\ pmLast.error = Absent
    /\ pmCfg.logSlowQueries
    /\ pmCfg.slowQueryThreshold > 0
    /\ metrics.endTime - metrics.startTime = pmCfg.slowQueryThreshold
    /\ Len(pmEvents) = 1
    /\ pmEvents[1].level = "debug"

\* A metrics object has been made by start.
HasMetrics ==
    \/ pmPhase \in {"running", "pending", "ended"}
    \/ pmPhase = "wrapped" /\ pmCfg.enabled

\* C21: with logInputOutput false, metrics.input and metrics.output are
\* absent after start and after end, and no log of end carries an input or an
\* output; with logInputOutput true on a monitor that is enabled, start
\* stores the input it was given, and the completion log carries that input
\* and the output given to end.
C21_InputOutputOnlyWhenConfigured ==
    /\ ~pmCfg.logInputOutput =>
          /\ HasMetrics => metrics.input = Absent /\ metrics.output = Absent
          /\ \A k \in DOMAIN pmEvents :
                pmEvents[k].meta.input = Absent /\ pmEvents[k].meta.output = Absent
    /\ (pmCfg.logInputOutput /\ pmCfg.enabled /\ HasMetrics) =>
          /\ metrics.input = pmInput
          /\ (pmPhase = "ended" /\ ~Truthy(pmLast.error)) =>
                /\ pmEvents[1].meta.input = pmInput
                /\ pmEvents[1].meta.output = pmLast.output
                /\ metrics.output = pmLast.output
          /\ (pmPhase = "wrapped" /\ pmWrap.fn.settles.kind = "result") =>
                /\ pmEvents[1].meta.input = pmInput
                /\ pmEvents[1].meta.output = pmWrap.fn.settles.v

\* start was given an input and end an output, with logInputOutput on: the
\* completion log carries both.
C21_Witness ==
    /\ pmCfg.enabled
    /\ pmCfg.logInputOutput
    /\ pmPhase = "ended"
    /\ pmInput = "in"
    /\ pmLast = [output |-> "out", error |-> Absent]
    /\ Len(pmEvents) = 1
    /\ pmEvents[1].meta.input = "in"
    /\ pmEvents[1].meta.output = "out"

\* C23: every invocation of a function returned by wrap, on an enabled
\* monitor, calls end exactly once on its metrics and so emits exactly one
\* performance log, whatever the wrapped function and the logger calls do.
C23_EndExactlyOncePerInvocation ==
    (pmPhase = "wrapped" /\ pmCfg.enabled) =>
        /\ pmWrap.ends = 1
        /\ Len(pmEvents) = 1

\* C23 for a logger whose methods return: one end, one log, and the wrapper
\* ends as the wrapped function does.
C23_EndOnceWhenLoggerReturns ==
    (pmPhase = "wrapped" /\ pmCfg.enabled /\ pmLogger.throws = {}) =>
        /\ pmWrap.ends = 1
        /\ Len(pmEvents) = 1
        /\ pmWrap.outcome = pmWrap.fn.settles

\* C11: on a disabled monitor no sequence of start, end and wrap calls, with
\* or without an error argument, makes a logger call, and a call of the
\* function wrap returned ends as the wrapped function itself ends.
C11_DisabledMonitorIsSilent ==
    ~pmCfg.enabled =>
        /\ pmEvents = <<>>
        /\ pmResult # "threw"
        /\ pmPhase = "wrapped" => pmWrap.outcome = pmWrap.fn.settles

\* end was called with an error on a disabled monitor whose logger's error
\* method would throw.
C11_Witness ==
    /\ ~pmCfg.enabled
    /\ "error" \in pmLogger.throws
    /\ pmPhase = "ended"
    /\ Truthy(pmLast.error)
    /\ pmResult = "returned"
    /\ pmEvents = <<>>

-----------------------------------------------------------------------------
(* The request middlewares *)

\* Bound: windowMs is drawn from 1..MaxWindow.
MaxWindow == 2

\* Bound: maxRequests is drawn from 1..MaxRequests.
MaxRequests == 2

\* Bound: no call is made for a key whose count has reached MaxCount.
MaxCount == 3

MwKinds ==
    {"logging", "errorHandling", "rateLimiting", "authLogging", "performance",
     "performanceMiddleware"}

\* The five factories that take their logger from opts.ctx.
CtxLoggerKinds == MwKinds \ {"performanceMiddleware"}

\* The fields of MiddlewareConfig that decide which log calls are made.
\* A value of a request: undefined, a string, an object, an array.
NoData == [tag |-> "undefined"]
Str(x) == [tag |-> "string", v |-> x]
Obj(f) == [tag |-> "object", fields |-> f]
Arr(items) == [tag |-> "array", items |-> items]

\* maskSensitiveFields: ['password', 'token', 'secret', 'key'] (defaultConfig)
DefaultSensitiveFields == {"password", "token", "secret", "key"}

LoggingConfig ==
    [logRequests : BOOLEAN, logResponses : BOOLEAN, logErrors : BOOLEAN,
     performanceMonitoring : BOOLEAN, slowQueryThreshold : 0..MaxThreshold,
     includeHeaders : {FALSE}, includeBody : {TRUE},
     maskSensitiveFields : {DefaultSensitiveFields}]

ErrorHandlingConfig ==
    [logAllErrors : BOOLEAN, logValidationErrors : BOOLEAN, logAuthErrors : BOOLEAN]

\* windowMs and maxRequests are positive (RateLimitConfigSchema).
RateLimitConfig ==
    [windowMs : 1..MaxWindow, maxRequests : 1..MaxRequests, keyGenerator : {Absent}]

PerformanceMwConfig ==
    [enabled : BOOLEAN, logSlowQueries : BOOLEAN, slowQueryThreshold : 0..MaxThreshold]

\* performanceMiddleware(logger, config): the monitor's config and its logger.
\* The monitor calls logger.warn, logger.debug and logger.error only.
MonitorMwConfig ==
    [monitor : PerformanceConfig,
     logger : {l \in Loggers : l.throws \subseteq {"warn", "debug", "error"}}]

ConfigsOf(kind) ==
    CASE kind = "logging" -> LoggingConfig
      [] kind = "errorHandling" -> ErrorHandlingConfig
      [] kind = "rateLimiting" -> RateLimitConfig
      [] kind = "authLogging" -> {[none |-> TRUE]}
      [] kind = "performance" -> PerformanceMwConfig
      [] kind = "performanceMiddleware" -> MonitorMwConfig

\* The logger methods a middleware of this kind ever calls.
LevelsUsed(kind) ==
    CASE kind = "logging" -> {"info", "warn", "error"}
      [] kind = "errorHandling" -> {"error"}
      [] kind = "rateLimiting" -> {"warn"}
      [] kind = "authLogging" -> {"debug", "warn"}
      [] kind = "performance" -> {"warn", "debug", "error"}
      [] kind = "performanceMiddleware" -> {}

\* Whether its contexts carry a requestId is a property of the application
\* (of its createContext); only the rate limiter reads it.
RequestIdSets(kind) == IF kind = "rateLimiting" THEN {{Absent}, {"r1"}} ELSE {{"r1"}}

\* opts.ctx of a call: the logger may be missing. Two contexts differ for a
\* middleware only in what it reads of them: the logger methods it calls,
\* userId (rate limiter, auth logging) and requestId (rate limiter).
\* The opts of a call: ctx.logger, ctx.userId, ctx.requestId, ctx.req.headers
\* and opts.input.
Contexts(kind, rids) ==
    [logger : {NoLogger} \cup {l \in Loggers : l.throws \subseteq LevelsUsed(kind)},
     userId : IF kind \in {"rateLimiting", "authLogging"}
              THEN {Absent, "u1"} ELSE {"u1"},
     requestId : rids, headers : {NoData}, input : {NoData}]

\* The factories that keep `const startTime = Date.now()` for the code after
\* the await.
Timed(kind) == kind \in {"logging", "performance"}

LogEv(level, message) == [level |-> level, message |-> message, meta |-> NoMeta]

\* masked[field] = '[MASKED]'
Masked == Str("[MASKED]")

RECURSIVE maskSensitiveData(_, _)
\* if (!data || typeof data !== 'object') return data;
\* if (Array.isArray(data)) return data.map(item => maskSensitiveData(item, ...));
\* const masked = { ...data }; for (const field of sensitiveFields)
\*   if (field in masked) masked[field] = '[MASKED]';
maskSensitiveData(data, sensitiveFields) ==
    IF data.tag \notin {"object", "array"} THEN data
    ELSE IF data.tag = "array"
         THEN Arr([i \in DOMAIN data.items |->
                    maskSensitiveData(data.items[i], sensitiveFields)])
         ELSE Obj([f \in DOMAIN data.fields |->
                    IF f \in sensitiveFields THEN Masked ELSE data.fields[f]])

\* The logData of 'Request started': headers when includeHeaders and the
\* request has headers, body when includeBody and opts.input is truthy.
StartedMeta(cfg, opts) ==
    LET headers == IF cfg.includeHeaders /\ opts.headers.tag # "undefined"
                   THEN maskSensitiveData(opts.headers, cfg.maskSensitiveFields)
                   ELSE NoData
        body == IF cfg.includeBody /\ opts.input.tag # "undefined"
                THEN maskSensitiveData(opts.input, cfg.maskSensitiveFields)
                ELSE NoData
    IN IF headers.tag = "undefined" /\ body.tag = "undefined" THEN NoMeta
       ELSE [headers |-> headers, body |-> body]

\* The middleware calls opts.next().
NextEv == [level |-> "next", message |-> "opts.next()", meta |-> NoMeta]

\* The middleware throws an error of its own.
RaiseEv(err) == [level |-> "throw", message |-> err, meta |-> NoMeta]

Unsettled == [kind |-> "none", v |-> Absent]

\* What the synchronous part of a call yields: its events, whether it ended by
\* calling next() (then the call waits for it), otherwise its outcome; the
\* table as it leaves it; whether the code after `await next()` exists
\* (wrapped) or the middleware returned next()'s promise itself.
Began(events, called, outcome, table, wrapped) ==
    [events |-> events, called |-> called, outcome |-> outcome, table |-> table,
     wrapped |-> wrapped]

\* FailOpen with the logger check of the rate limiter left out.
FailOpenButRateLimiter(kind, cfg, ctx) ==
    CASE kind = "performance" -> ~ctx.logger.present \/ ~cfg.enabled
      [] kind \in {"performanceMiddleware", "rateLimiting"} -> FALSE
      [] OTHER -> ~ctx.logger.present

\* const logger = opts.ctx.logger; if (!logger) return opts.next();
\* createPerformanceMiddleware: if (!logger || !config.enabled)
FailOpen(kind, cfg, ctx) ==
    CASE kind = "performance" -> ~ctx.logger.present \/ ~cfg.enabled
      [] kind = "performanceMiddleware" -> FALSE
      [] OTHER -> ~ctx.logger.present

\* config.keyGenerator ? config.keyGenerator(opts)
\*   : opts.ctx?.userId || opts.ctx?.requestId || 'anonymous'
RateKey(cfg, ctx) ==
    IF cfg.keyGenerator # Absent THEN "generated"
    ELSE IF Truthy(ctx.userId) THEN ctx.userId
    ELSE IF Truthy(ctx.requestId) THEN ctx.requestId
    ELSE "anonymous"

\* The sweep left out: no entry is deleted.
SweepNothing(table, t) == table

\* for (const [k, v] of requests.entries()) if (now > v.resetTime) requests.delete(k)
Sweep(table, t) ==
    [k \in {x \in DOMAIN table : ~(t > table[x].resetTime)} |-> table[k]]

\* requests.set(key, entry)
Put(table, key, entry) ==
    [k \in DOMAIN table \cup {key} |-> IF k = key THEN entry ELSE table[k]]

\* if (!current || now > current.resetTime)
WindowIsFresh(table, key, t) ==
    key \notin DOMAIN table \/ t > table[key].resetTime

\* if (current.count > config.maxRequests)
OverLimit(cfg, count) == count > cfg.maxRequests

\* RejectCall without its logger.warn: the error is thrown unannounced.
RejectCallSilently(logger, table) ==
    Began(<<RaiseEv("RateLimit")>>, FALSE, ErrorOf("RateLimit"), table, FALSE)

\* logger.warn('Rate limit exceeded', ...); throw new Error('Rate limit exceeded')
RejectCall(logger, table) ==
    LET r == RunLogs(logger, <<LogEv("warn", "Rate limit exceeded")>>)
    IN IF r.threw
       THEN Began(r.events, FALSE, ErrorOf(r.err), table, FALSE)
       ELSE Began(r.events \o <<RaiseEv("RateLimit")>>, FALSE, ErrorOf("RateLimit"),
                  table, FALSE)

\* The body of the rate limiter after the logger check.
RateBegin(cfg, ctx, t, table) ==
    LET key == RateKey(cfg, ctx)
        swept == Sweep(table, t)
    IN IF WindowIsFresh(swept, key, t)
       THEN Began(<<NextEv>>, TRUE, Unsettled,
                  Put(swept, key, [count |-> 1, resetTime |-> t + cfg.windowMs]), FALSE)
       ELSE LET count == swept[key].count + 1
                counted == Put(swept, key,
                               [count |-> count, resetTime |-> swept[key].resetTime])
            IN IF OverLimit(cfg, count)
               THEN RejectCall(ctx.logger, counted)
               ELSE Began(<<NextEv>>, TRUE, Unsettled, counted, FALSE)

\* A block of logger calls followed by `await opts.next()` or `return opts.next()`.
LogThenNext(logger, logs, table, wrapped) ==
    LET r == RunLogs(logger, logs)
    IN IF r.threw
       THEN Began(r.events, FALSE, ErrorOf(r.err), table, FALSE)
       ELSE Began(r.events \o <<NextEv>>, TRUE, Unsettled, table, wrapped)

\* The synchronous part of one call of a middleware, up to and with its next().
Begin(kind, cfg, ctx, t, table) ==
    IF FailOpen(kind, cfg, ctx) THEN Began(<<NextEv>>, TRUE, Unsettled, table, FALSE)
    ELSE CASE kind = "logging" ->
                LogThenNext(ctx.logger,
                            IF cfg.logRequests
                            THEN <<[LogEv("info", "Request started")
                                      EXCEPT !.meta = StartedMeta(cfg, ctx)]>>
                            ELSE <<>>,
                            table, TRUE)
           [] kind = "errorHandling" -> Began(<<NextEv>>, TRUE, Unsettled, table, TRUE)
           [] kind = "rateLimiting" -> RateBegin(cfg, ctx, t, table)
           [] kind = "authLogging" ->
                LogThenNext(ctx.logger,
                            IF Truthy(ctx.userId)
                            THEN <<LogEv("debug", "Authenticated request")>>
                            ELSE <<LogEv("warn", "Unauthenticated request")>>,
                            table, FALSE)
           [] kind = "performance" -> Began(<<NextEv>>, TRUE, Unsettled, table, TRUE)
           [] kind = "performanceMiddleware" ->
                Began(<<NextEv>>, TRUE, Unsettled, table, TRUE)

\* How the code after the await ends: the logger calls made and the outcome.
Ended(events, outcome) == [events |-> events, outcome |-> outcome]

\* A catch block that makes the given logger calls and rethrows e.
LogAndRethrow(logger, logs, e) ==
    LET r == RunLogs(logger, logs)
    IN Ended(r.events, ErrorOf(IF r.threw THEN r.err ELSE e))

\* createLoggingMiddleware: catch (error) { ... throw error }
\* errorObj.message is read before logger.error is called: a TypeError when
\* the thrown value is null.
LoggingCatch(cfg, logger, e) ==
    IF ~cfg.logErrors THEN Ended(<<>>, ErrorOf(e))
    ELSE IF e = "null" THEN Ended(<<>>, ErrorOf("TypeError"))
    ELSE LogAndRethrow(logger, <<LogEv("error", "Request failed")>>, e)

\* createLoggingMiddleware after `await opts.next()`.
LoggingEnd(cfg, logger, duration, settled) ==
    IF settled.kind = "error" THEN LoggingCatch(cfg, logger, settled.v)
    ELSE LET r == RunLogs(logger,
                          IF ~cfg.logResponses THEN <<>>
                          ELSE IF cfg.performanceMonitoring
                                  /\ duration > cfg.slowQueryThreshold
                               THEN <<LogEv("warn", "Slow query detected")>>
                               ELSE <<LogEv("info", "Request completed")>>)
         IN IF ~r.threw THEN Ended(r.events, settled)
            ELSE LET c == LoggingCatch(cfg, logger, r.err)
                 IN Ended(r.events \o c.events, c.outcome)

\* errorObj.constructor.name
ConstructorName(e) ==
    CASE e = "zod" -> "ZodError"
      [] e = "unauth" -> "TRPCError"
      [] e = "str" -> "String"
      [] OTHER -> "Error"

\* (error as any).code
CodeOf(e) == IF e \in {"unauth"} \cup CodedErrors THEN "UNAUTHORIZED" ELSE Absent

\* createErrorHandlingMiddleware: let shouldLog = ...
ShouldLog(cfg, e) ==
    /\ cfg.logAllErrors
    /\ ~(ConstructorName(e) = "ZodError" /\ ~cfg.logValidationErrors)
    /\ ~(ConstructorName(e) = "TRPCError" /\ CodeOf(e) = "UNAUTHORIZED"
         /\ ~cfg.logAuthErrors)

\* createErrorHandlingMiddleware after `await opts.next()`: reading
\* errorObj.constructor of null is a TypeError.
ErrorHandlingEnd(cfg, logger, settled) ==
    IF settled.kind = "result" THEN Ended(<<>>, settled)
    ELSE IF settled.v = "null" THEN Ended(<<>>, ErrorOf("TypeError"))
    ELSE LogAndRethrow(logger,
                       IF ShouldLog(cfg, settled.v)
                       THEN <<LogEv("error", "Procedure error")>> ELSE <<>>,
                       settled.v)

\* createPerformanceMiddleware after `await opts.next()`.
PerformanceEnd(cfg, logger, duration, settled) ==
    IF settled.kind = "error"
    THEN LogAndRethrow(logger, <<LogEv("error", "Procedure failed")>>, settled.v)
    ELSE LET r == RunLogs(logger,
                          IF cfg.logSlowQueries /\ duration > cfg.slowQueryThreshold
                          THEN <<LogEv("warn", "Slow query detected")>>
                          ELSE <<LogEv("debug", "Procedure completed")>>)
         IN IF ~r.threw THEN Ended(r.events, settled)
            ELSE LET c == LogAndRethrow(logger, <<LogEv("error", "Procedure failed")>>,
                                        r.err)
                 IN Ended(r.events \o c.events, c.outcome)

\* performanceMiddleware after `await opts.next()`: monitor.end in the try
\* block, and again in the catch block when the first end threw.
MonitorMwEnd(cfg, m, t, settled) ==
    IF settled.kind = "error"
    THEN LET r == MonitorEnd(cfg.monitor, cfg.logger, m, t, Absent, settled.v)
         IN Ended(r.events, ErrorOf(IF r.threw THEN "SinkError" ELSE settled.v))
    ELSE LET r == MonitorEnd(cfg.monitor, cfg.logger, m, t, settled.v, Absent)
         IN IF ~r.threw THEN Ended(r.events, settled)
            ELSE LET c == MonitorEnd(cfg.monitor, cfg.logger, r.metrics, t, Absent,
                                     "SinkError")
                 IN Ended(r.events \o c.events, ErrorOf("SinkError"))

\* The code of a call after its next() settled.
End(kind, cfg, c, t, settled) ==
    IF ~c.wrapped THEN Ended(<<>>, settled)
    ELSE CASE kind = "logging" -> LoggingEnd(cfg, c.logger, t - c.startTime, settled)
           [] kind = "errorHandling" -> ErrorHandlingEnd(cfg, c.logger, settled)
           [] kind = "performance" ->
                PerformanceEnd(cfg, c.logger, t - c.startTime, settled)
           [] kind = "performanceMiddleware" -> MonitorMwEnd(cfg, c.metrics, t, settled)

\* The window of a key as the calls made with a logger define it: a call
\* opens a window when the key has none or its window has expired, and
\* otherwise is one more call of the window.
Counted(w, key, t, windowMs) ==
    IF key \notin DOMAIN w \/ t > w[key].resetTime
    THEN Put(w, key, [calls |-> 1, resetTime |-> t + windowMs])
    ELSE Put(w, key, [calls |-> w[key].calls + 1, resetTime |-> w[key].resetTime])

InitMw ==
    /\ IdleBuilder
    /\ IdleValidation
    /\ IdleLimiter
    /\ IdleDispatch
    /\ IdleCombine
    /\ IdlePerf
    /\ mwKind \in MwKinds
    /\ mwCfg \in ConfigsOf(mwKind)
    /\ requests = [k \in {} |-> Absent]
    /\ call = [pc |-> "idle", logger |-> NoLogger, key |-> Absent, startTime |-> 0,
               wrapped |-> FALSE, metrics |-> Absent, input |-> NoData]
    /\ mwEvents = <<>>
    /\ nextSettled = Unsettled
    /\ mwOutcome = Unsettled
    /\ requestIds \in RequestIdSets(mwKind)
    /\ windows = [k \in {} |-> Absent]

\* One call of the middleware, from its entry to its `opts.next()` or to the
\* error it throws before it. Nothing is awaited in this part, so the calls
\* of a middleware go through it one at a time.
MwCall(ctx) ==
    /\ call.pc \in {"idle", "done"}
    /\ mwKind = "rateLimiting" /\ RateKey(mwCfg, ctx) \in DOMAIN requests
          => requests[RateKey(mwCfg, ctx)].count < MaxCount
    /\ LET b == Begin(mwKind, mwCfg, ctx, now, requests)
           limited == mwKind = "rateLimiting"
       IN /\ requests' = b.table
          /\ mwEvents' = b.events
          /\ mwOutcome' = b.outcome
          /\ call' = [pc |-> IF b.called THEN "awaiting" ELSE "done",
                      logger |-> ctx.logger,
                      key |-> IF limited THEN RateKey(mwCfg, ctx) ELSE Absent,
                      startTime |-> IF Timed(mwKind) THEN now ELSE 0,
                      wrapped |-> b.wrapped,
                      metrics |-> IF mwKind = "performanceMiddleware"
                                  THEN MonitorStart(mwCfg.monitor, now, "proc", "in")
                                  ELSE Absent,
                      input |-> ctx.input]
          /\ windows' = IF limited /\ ctx.logger.present
                        THEN Counted(windows, RateKey(mwCfg, ctx), now, mwCfg.windowMs)
                        ELSE windows
    /\ nextSettled' = Unsettled
    /\ UNCHANGED <<mwKind, mwCfg, requestIds, now>>
    /\ UNCHANGED notMw

\* The promise of opts.next() settles and the rest of the call runs.
MwNextSettles(settled) ==
    /\ call.pc = "awaiting"
    /\ nextSettled' = settled
    /\ LET e == End(mwKind, mwCfg, call, now, settled)
       IN /\ mwEvents' = mwEvents \o e.events
          /\ mwOutcome' = e.outcome
    /\ call' = [call EXCEPT !.pc = "done"]
    /\ UNCHANGED <<mwKind, mwCfg, requests, requestIds, windows, now>>
    /\ UNCHANGED notMw

\* What opts.next() may settle with. The rate limiter and the auth logger
\* return the promise of next() itself and have no code that reads what it
\* settles with, so one thrown value stands for all of them there.
Settlements(kind) ==
    {ResultOf("r")}
    \cup {ErrorOf(e) : e \in IF kind \in {"rateLimiting", "authLogging"}
                             THEN {"e"}
                             ELSE IF kind = "errorHandling"
                                  THEN Thrown \cup CodedErrors ELSE Thrown}

NextMw ==
    \/ Tick
    \/ \E ctx \in Contexts(mwKind, requestIds) : MwCall(ctx)
    \/ \E settled \in Settlements(mwKind) : MwNextSettles(settled)

SpecMw == InitMw /\ [][NextMw]_vars

\* The call invoked opts.next().
CalledNext == \E i \in 1..Len(mwEvents) : mwEvents[i].level = "next"

\* The last call was a call of the rate limiter with a logger in context.
LimitedCall == mwKind = "rateLimiting" /\ call.pc # "idle" /\ call.logger.present

\* C4: for one rate limiter and one key, with a logger in context, the first
\* call opens a window with count 1 and resetTime = now + windowMs; within a
\* window exactly its first maxRequests calls reach next() and every further
\* call fails with the rate-limit error, without moving resetTime; the first
\* call after the window expired opens a new window with count 1.
C4_WindowAdmitsFirstMaxRequests ==
    LimitedCall =>
        /\ call.key \in DOMAIN requests
        /\ requests[call.key] = [count |-> windows[call.key].calls,
                                 resetTime |-> windows[call.key].resetTime]
        /\ windows[call.key].calls <= mwCfg.maxRequests => CalledNext
        /\ windows[call.key].calls > mwCfg.maxRequests =>
              ~CalledNext /\ mwOutcome = ErrorOf("RateLimit")

\* C6: when next() fails with a thrown value e, the call of the logging, the
\* error-handling and either performance middleware fails with that same e,
\* for every config and every kind of thrown value.
C6_NextFailureIsRethrownUnchanged ==
    /\ mwKind \in {"logging", "errorHandling", "performance", "performanceMiddleware"}
    /\ call.pc = "done"
    /\ nextSettled.kind = "error"
    => mwOutcome = nextSettled

\* C17: the error-handling middleware, with a logger in context, logs the
\* error next() failed with according to the switch of the error's category
\* alone: a ZodError iff logValidationErrors, an error with code UNAUTHORIZED
\* iff logAuthErrors, any other error iff logAllErrors.
C17_EachCategoryHasItsOwnSwitch ==
    (/\ mwKind = "errorHandling"
     /\ call.pc = "done"
     /\ call.logger.present
     /\ nextSettled.kind = "error")
    => LET e == nextSettled.v
           logged == \E i \in DOMAIN mwEvents :
                         /\ mwEvents[i].level = "error"
                         /\ mwEvents[i].message = "Procedure error"
           switch == IF e = "zod" THEN mwCfg.logValidationErrors
                     ELSE IF CodeOf(e) = "UNAUTHORIZED" THEN mwCfg.logAuthErrors
                     ELSE mwCfg.logAllErrors
       IN logged <=> switch

\* C17 as the code has it: logAllErrors is the switch for every error, and
\* logValidationErrors and logAuthErrors only take a ZodError and a TRPCError
\* with code UNAUTHORIZED out again; a thrown null is never logged.
C17_LogAllErrorsGatesEveryCategory ==
    (/\ mwKind = "errorHandling"
     /\ call.pc = "done"
     /\ call.logger.present
     /\ nextSettled.kind = "error")
    => LET e == nextSettled.v
           logged == \E i \in DOMAIN mwEvents :
                         /\ mwEvents[i].level = "error"
                         /\ mwEvents[i].message = "Procedure error"
       IN logged <=> /\ mwCfg.logAllErrors
                     /\ e # "null"
                     /\ e = "zod" => mwCfg.logValidationErrors
                     /\ e = "unauth" => mwCfg.logAuthErrors

\* A step that is a call of the rate limiter with a logger in context.
LimitedCallStep ==
    /\ mwKind = "rateLimiting"
    /\ call.pc \in {"idle", "done"}
    /\ call'.pc \in {"awaiting", "done"}
    /\ call'.logger.present
    /\ now' = now
    /\ mwVars' # mwVars

\* C25: right after a call of the rate limiter with a logger in context,
\* admitted or rejected, the table holds no entry of any key whose window has
\* expired (resetTime < now), and every entry it holds has a count of at
\* least 1.
C25_EveryCallSweepsAllExpiredEntries ==
    [][LimitedCallStep =>
          \A k \in DOMAIN requests' :
             /\ ~(requests'[k].resetTime < now')
             /\ requests'[k].count >= 1]_vars

\* A call for u1 removed the expired entry of another key: that key has had
\* a window, and the table no longer holds it.
C25_Witness ==
    /\ LimitedCall
    /\ call.key = "u1"
    /\ DOMAIN requests = {"u1"}
    /\ \E k \in DOMAIN windows : k # "u1" /\ windows[k].resetTime < now

\* The calls of opts.next() the current call of the middleware has made.
NextCalls == Cardinality({i \in 1..Len(mwEvents) : mwEvents[i].level = "next"})

\* The call had a logger in ctx, its next() resolved, and it has settled.
SettledAfterSuccess ==
    /\ call.pc = "done"
    /\ call.logger.present
    /\ nextSettled.kind = "result"

\* C29: with a logger present, when next() resolves with r, each middleware
\* (logging, error handling, auth logging, performance, and the rate limiter
\* for an admitted call) has called next exactly once and resolves with r.
C29_SuccessIsTransparent ==
    SettledAfterSuccess => NextCalls = 1 /\ mwOutcome = nextSettled

\* C29, for loggers whose methods return: next is called once and its result
\* is the result of the call.
C29_SuccessIsTransparentWhenLoggerReturns ==
    /\ SettledAfterSuccess
    /\ call.logger.throws = {}
    /\ mwKind = "performanceMiddleware" => mwCfg.logger.throws = {}
    => NextCalls = 1 /\ mwOutcome = nextSettled

\* C29, the call of next(): whatever the logger does after it, a call whose
\* next() resolved has called next exactly once.
C29_NextCalledOnce == SettledAfterSuccess => NextCalls = 1

\* next() settles in a call of the logging middleware that has a logger and
\* logRequests, logResponses and logErrors all on.
LoggingSettleStep ==
    /\ mwKind = "logging"
    /\ mwCfg.logRequests /\ mwCfg.logResponses /\ mwCfg.logErrors
    /\ call.logger.present
    /\ call.pc = "awaiting"
    /\ call'.pc = "done"

\* The one log that reports how next() settled after the given duration.
OutcomeLog(cfg, settled, duration) ==
    IF settled.kind = "error" THEN LogEv("error", "Request failed")
    ELSE IF cfg.performanceMonitoring /\ duration > cfg.slowQueryThreshold
         THEN LogEv("warn", "Slow query detected")
         ELSE LogEv("info", "Request completed")

\* C30: in the logging middleware with a logger and logRequests, logResponses
\* and logErrors on, 'Request started' is logged before next() is invoked,
\* and after next() settles exactly one outcome log is made before the call
\* settles: 'Request failed' at error if next failed, otherwise 'Slow query
\* detected' at warn iff performanceMonitoring and duration >
\* slowQueryThreshold, otherwise 'Request completed' at info.
C30_StartedThenNextThenOneOutcomeLog ==
    [][LoggingSettleStep =>
          mwEvents' = <<LogEv("info", "Request started"), NextEv,
                        OutcomeLog(mwCfg, nextSettled', now - call.startTime)>>]_vars

\* C30, when the logger's methods return and next() did not fail with null
\* or undefined.
C30_OneOutcomeLogWhenLoggerReturns ==
    [][(LoggingSettleStep /\ call.logger.throws = {} /\ nextSettled'.v # "null") =>
          mwEvents' = <<LogEv("info", "Request started"), NextEv,
                        OutcomeLog(mwCfg, nextSettled', now - call.startTime)>>]_vars

\* C30, the order before next(): a call of the logging middleware that awaits
\* next() has logged 'Request started' and then invoked next().
C30_StartedBeforeNext ==
    (mwKind = "logging" /\ mwCfg.logRequests /\ call.logger.present
     /\ call.pc = "awaiting")
    => mwEvents = <<LogEv("info", "Request started"), NextEv>>

-----------------------------------------------------------------------------
(* The key of a rate-limited call *)

\* Rate limiters with and without a key generator.
KeyConfigs == [windowMs : {1}, maxRequests : {1}, keyGenerator : {Absent, "generator"}]

\* What ctx.userId and ctx.requestId may hold: nothing, an empty string, the
\* number 0, an identifier.
UserIds == {Absent, "", Zero, "u1"}
RequestIds == {Absent, "", Zero, "r1"}

KeyContexts ==
    [logger : {[present |-> TRUE, throws |-> {}]}, userId : UserIds,
     requestId : RequestIds, headers : {NoData}, input : {NoData}]

InitKeys ==
    /\ IdleBuilder
    /\ IdleValidation
    /\ IdleLimiter
    /\ IdleDispatch
    /\ IdleCombine
    /\ IdlePerf
    /\ mwKind = "rateLimiting"
    /\ mwCfg \in KeyConfigs
    /\ requests = [k \in {} |-> Absent]
    /\ call = [pc |-> "idle", logger |-> NoLogger, key |-> Absent, startTime |-> 0,
               wrapped |-> FALSE, metrics |-> Absent, input |-> NoData]
    /\ mwEvents = <<>>
    /\ nextSettled = Unsettled
    /\ mwOutcome = Unsettled
    /\ requestIds = RequestIds
    /\ windows = [k \in {} |-> Absent]
    /\ now = 0

NextKeys ==
    \/ Tick
    \/ \E ctx \in KeyContexts : MwCall(ctx)
    \/ \E settled \in Settlements(mwKind) : MwNextSettles(settled)

SpecKeys == InitKeys /\ [][NextKeys]_vars

\* The key by the priority of the fields a context carries: the generator's
\* result, else the userId the context has, else its requestId, else
\* "anonymous".
KeyOfPresent(cfg, ctx) ==
    IF cfg.keyGenerator # Absent THEN "generated"
    ELSE IF ctx.userId # Absent THEN ctx.userId
    ELSE IF ctx.requestId # Absent THEN ctx.requestId
    ELSE "anonymous"

\* C27: the key of a rate-limited call is the key generator's result when a
\* generator is configured; otherwise ctx.userId when the context carries
\* one, else ctx.requestId when it carries one, else "anonymous".
C27_KeyIsFirstPresentId ==
    [][\A ctx \in KeyContexts : MwCall(ctx) => call'.key = KeyOfPresent(mwCfg, ctx)]_vars

\* C27, for the ids the code takes as given: a generator's result, else the
\* first of userId and requestId that is neither undefined, null, '' nor 0,
\* else "anonymous"; calls with neither share the entry of "anonymous".
C27_KeyIsFirstTruthyId ==
    [][\A ctx \in KeyContexts :
          MwCall(ctx) =>
              /\ call'.key \in DOMAIN requests'
              /\ call'.key =
                    (CASE mwCfg.keyGenerator # Absent -> "generated"
                       [] mwCfg.keyGenerator = Absent
                          /\ ctx.userId = "u1" -> "u1"
                       [] mwCfg.keyGenerator = Absent /\ ctx.userId # "u1"
                          /\ ctx.requestId = "r1" -> "r1"
                       [] OTHER -> "anonymous")]_vars

-----------------------------------------------------------------------------
(* The request log of the logging middleware *)

\* How deep the objects of a request nest.
Nesting == 2

\* The field names of the requests: one that is listed in
\* maskSensitiveFields, one that is not.
FieldNames == {"password", "profile"}

Strings == {Str("s1"), Str("s2")}

\* The objects with fields among FieldNames and values in V.
ObjectsOver(V) == {Obj(f) : f \in UNION {[S -> V] : S \in SUBSET FieldNames}}

RECURSIVE DataOfDepth(_)
\* Strings, objects and one-element arrays, nested n deep at most.
DataOfDepth(n) ==
    IF n = 0 THEN Strings
    ELSE LET inner == DataOfDepth(n - 1)
         IN inner \cup ObjectsOver(inner) \cup {Arr(<<x>>) : x \in inner}

MaskInputs == {NoData} \cup DataOfDepth(Nesting)

MaskHeaders == {NoData, Obj([password |-> Str("s1"), profile |-> Str("s2")])}

MaskConfigs ==
    [logRequests : {TRUE}, logResponses : {TRUE}, logErrors : {TRUE},
     performanceMonitoring : {FALSE}, slowQueryThreshold : {0},
     includeHeaders : BOOLEAN, includeBody : BOOLEAN,
     maskSensitiveFields : {DefaultSensitiveFields}]

MaskContexts ==
    [logger : {[present |-> TRUE, throws |-> {}]}, userId : {"u1"}, requestId : {"r1"},
     headers : MaskHeaders, input : MaskInputs]

InitMasking ==
    /\ IdleBuilder
    /\ IdleValidation
    /\ IdleLimiter
    /\ IdleDispatch
    /\ IdleCombine
    /\ IdlePerf
    /\ mwKind = "logging"
    /\ mwCfg \in MaskConfigs
    /\ requests = [k \in {} |-> Absent]
    /\ call = [pc |-> "idle", logger |-> NoLogger, key |-> Absent, startTime |-> 0,
               wrapped |-> FALSE, metrics |-> Absent, input |-> NoData]
    /\ mwEvents = <<>>
    /\ nextSettled = Unsettled
    /\ mwOutcome = Unsettled
    /\ requestIds = {"r1"}
    /\ windows = [k \in {} |-> Absent]
    /\ now = 0

NextMasking ==
    \/ \E opts \in MaskContexts : MwCall(opts)
    \/ \E settled \in {ResultOf("r"), ErrorOf("e")} : MwNextSettles(settled)

SpecMasking == InitMasking /\ [][NextMasking]_vars

RECURSIVE AllMasked(_, _)
\* Every field of d named in fields, at any depth, holds '[MASKED]'.
AllMasked(d, fields) ==
    CASE d.tag = "object" ->
            \A f \in DOMAIN d.fields :
                IF f \in fields THEN d.fields[f].tag = "string" /\ d.fields[f] = Masked
                ELSE AllMasked(d.fields[f], fields)
      [] d.tag = "array" -> \A i \in DOMAIN d.items : AllMasked(d.items[i], fields)
      [] OTHER -> TRUE

RECURSIVE Redacted(_, _)
\* d with the value of every field named in fields, at any depth, taken out.
Redacted(d, fields) ==
    CASE d.tag = "object" ->
            Obj([f \in DOMAIN d.fields |->
                    IF f \in fields THEN Masked ELSE Redacted(d.fields[f], fields)])
      [] d.tag = "array" -> Arr([i \in DOMAIN d.items |-> Redacted(d.items[i], fields)])
      [] OTHER -> d

\* The call logged 'Request started' with headers or a body.
RequestLogged ==
    /\ mwKind = "logging"
    /\ call.pc # "idle"
    /\ Len(mwEvents) >= 1
    /\ mwEvents[1].message = "Request started"
    /\ "body" \in DOMAIN mwEvents[1].meta

\* C28: the body and the headers logged with 'Request started' hold no
\* original value of a field listed in maskSensitiveFields, at any nesting
\* depth, and a request that differs from the logged one only in the values
\* of such fields gives the same logged body.
C28_RequestLogHidesSensitiveFields ==
    RequestLogged =>
        /\ AllMasked(mwEvents[1].meta.body, mwCfg.maskSensitiveFields)
        /\ AllMasked(mwEvents[1].meta.headers, mwCfg.maskSensitiveFields)
        /\ mwCfg.includeBody =>
              \A other \in MaskInputs :
                  Redacted(other, mwCfg.maskSensitiveFields)
                      = Redacted(call.input, mwCfg.maskSensitiveFields)
                  => maskSensitiveData(other, mwCfg.maskSensitiveFields)
                        = mwEvents[1].meta.body

\* C28, one level deep: the sensitive fields of the logged object itself, and
\* of the objects of a logged array, hold '[MASKED]'; every other field is
\* logged as the request gave it.
C28_OwnFieldsAreMasked ==
    RequestLogged =>
        LET body == mwEvents[1].meta.body
            OwnMasked(d) ==
                d.tag = "object" =>
                    \A f \in DOMAIN d.fields \cap mwCfg.maskSensitiveFields :
                        d.fields[f].tag = "string" /\ d.fields[f] = Masked
        IN /\ OwnMasked(body)
           /\ OwnMasked(mwEvents[1].meta.headers)
           /\ body.tag = "array" => \A i \in DOMAIN body.items : OwnMasked(body.items[i])
           /\ (mwCfg.includeBody /\ call.input.tag = "object") =>
                 /\ DOMAIN body.fields = DOMAIN call.input.fields
                 /\ \A f \in DOMAIN body.fields \ mwCfg.maskSensitiveFields :
                       body.fields[f] = call.input.fields[f]

\* C7: with no logger in the context, each of the five factories that read
\* ctx.logger calls next() exactly once and does nothing else: no log call,
\* the outcome of the call is what next() settled with, and the counter table
\* of the rate limiter is left as it was.
C7_FailOpenWithoutLogger ==
    /\ []((mwKind \in CtxLoggerKinds /\ call.pc # "idle" /\ ~call.logger.present)
           => (/\ mwEvents = <<NextEv>>
               /\ call.pc = "done" => mwOutcome = nextSettled))
    /\ [][(mwKind \in CtxLoggerKinds /\ call'.pc # "idle" /\ ~call'.logger.present)
           => (requests' = requests)]_vars

\* A call without a logger went through a rate limiter that holds counters,
\* and the failure of next() came back as the failure of the call.
C7_Witness ==
    /\ mwKind = "rateLimiting"
    /\ call.pc = "done"
    /\ ~call.logger.present
    /\ DOMAIN requests # {}
    /\ mwEvents = <<NextEv>>
    /\ nextSettled = ErrorOf("e")
    /\ mwOutcome = nextSettled

\* C8: a call that the rate limiter rejects (its post-increment count exceeds
\* maxRequests) makes exactly one warn-level log call, never calls next(), and
\* raises the rate-limit error only after that log call.
C8_RejectionWarnsOnceBeforeRaising ==
    /\ LimitedCall
    /\ call.key \in DOMAIN requests
    /\ OverLimit(mwCfg, requests[call.key].count)
    => /\ Cardinality({i \in 1..Len(mwEvents) : mwEvents[i].level = "warn"}) = 1
       /\ ~CalledNext
       /\ \A i \in 1..Len(mwEvents) :
             mwEvents[i].level = "throw"
             => \E j \in 1..(i - 1) : mwEvents[j].level = "warn"

\* A call was rejected: the warning was logged, then the rate-limit error was
\* thrown, and the call failed with it.
C8_Witness ==
    /\ LimitedCall
    /\ call.key \in DOMAIN requests
    /\ OverLimit(mwCfg, requests[call.key].count)
    /\ mwEvents = <<LogEv("warn", "Rate limit exceeded"), RaiseEv("RateLimit")>>
    /\ mwOutcome = ErrorOf("RateLimit")

-----------------------------------------------------------------------------
(* The rate limiter under concurrent requests *)

\* Bound: the requests made to the limiter in one run.
MaxInFlight == 3

LimiterKeys == {"u1", "u2"}

\* The middlewares built by separate calls of createRateLimitingMiddleware,
\* here with the same config.
Instances == {1, 2}

\* The calls made, as instance and key: two users call instance 1, and one of
\* them calls instance 2 as well.
LimiterCalls == {<<1, "u1">>, <<1, "u2">>, <<2, "u1">>}

\* One Map for all instances, as if `requests` were declared outside the factory.
SharedTable(inst) == 1

\* const requests = new Map() inside the factory: the table instance `inst`
\* reads and writes is its own.
TableOf(inst) == inst

\* The limiter's body with an await between its read and its write.
LimiterTurnsWithAwait == <<<<"clock", "sweep", "read">>, <<"write">>>>

\* The statements of the limiter's body after the logger check, grouped into
\* the turns the event loop runs them in. There is no await between
\* `const now = Date.now()` and `return opts.next()`, so they are one turn.
LimiterTurns == <<<<"clock", "sweep", "read", "write">>>>

\* requests.get(key) found nothing.
NoEntry == [present |-> FALSE, count |-> 0, resetTime |-> 0]

\* One statement of the body, run by a request for `key` at clock time `clock`;
\* st holds the table and the request's locals (now, current, its admission).
Statement(stmt, cfg, key, clock, st) ==
    CASE stmt = "clock" -> [st EXCEPT !.t = clock]
      [] stmt = "sweep" -> [st EXCEPT !.table = Sweep(st.table, st.t)]
      [] stmt = "read" ->
            [st EXCEPT !.current =
                IF key \in DOMAIN st.table
                THEN [present |-> TRUE, count |-> st.table[key].count,
                      resetTime |-> st.table[key].resetTime]
                ELSE NoEntry]
      [] stmt = "write" ->
            IF ~st.current.present \/ st.t > st.current.resetTime
            THEN [st EXCEPT !.table = Put(st.table, key,
                                          [count |-> 1,
                                           resetTime |-> st.t + cfg.windowMs]),
                            !.admitted = TRUE]
            ELSE \* current.count++ on the entry object, if the table still holds it
                 LET count == IF key \in DOMAIN st.table
                              THEN st.table[key].count + 1
                              ELSE st.current.count + 1
                 IN [st EXCEPT !.table = IF key \in DOMAIN st.table
                                         THEN Put(st.table, key,
                                                  [count |-> count,
                                                   resetTime |-> st.table[key].resetTime])
                                         ELSE st.table,
                               !.admitted = ~(count > cfg.maxRequests)]

RECURSIVE RunTurn(_, _, _, _, _)
\* The statements of one turn, in order.
RunTurn(stmts, cfg, key, clock, st) ==
    IF stmts = <<>> THEN st
    ELSE RunTurn(Tail(stmts), cfg, key, clock, Statement(Head(stmts), cfg, key, clock, st))

\* A request not yet made.
NewRequest ==
    [pc |-> "new", inst |-> 0, key |-> Absent, turn |-> 1, t |-> 0, current |-> NoEntry,
     admitted |-> FALSE, expected |-> FALSE, nth |-> 0]

\* The context of a request of user `key`, with a logger.
LimiterCtx(key) ==
    [logger |-> [present |-> TRUE, throws |-> {}], userId |-> key, requestId |-> Absent]

InitLimiter ==
    /\ IdleBuilder
    /\ IdleValidation
    /\ IdleDispatch
    /\ IdleCombine
    /\ IdlePerf
    /\ IdleMw
    /\ now = 0
    /\ limiter \in [cfg : RateLimitConfig,
                    tables : {[i \in Instances |-> <<>>]},
                    shadows : {[i \in Instances |-> <<>>]},
                    windows : {<<>>},
                    reqs : {[r \in 1..MaxInFlight |-> NewRequest]}]

\* The event loop runs request r up to its next suspension point: a new
\* request enters the middleware `inst` (requests are numbered in the order
\* they enter), a suspended one goes on. A request that has run the whole body
\* is rejected, or has called opts.next() and waits for it; its local
\* `current` is then out of scope. Two histories are
\* kept: shadows[i] is the table of a limiter that handles the calls made to
\* instance i one after another, in the order and at the times they entered;
\* windows[<<i, key>>] counts the calls made to instance i with that key alone,
\* and nth is the request's place among them in its window.
RunRequest(r, inst, key) ==
    LET q == limiter.reqs[r]
        entering == q.pc = "new"
        own == TableOf(inst)
        st == RunTurn(LimiterTurns[q.turn], limiter.cfg, key, now,
                      [table |-> limiter.tables[own], t |-> q.t, current |-> q.current,
                       admitted |-> FALSE])
        alone == RateBegin(limiter.cfg, LimiterCtx(key), now, limiter.shadows[inst])
    IN /\ q.pc \in {"new", "running"}
       /\ entering => (IF r = 1 THEN TRUE ELSE limiter.reqs[r - 1].pc # "new")
       /\ ~entering => (key = q.key /\ inst = q.inst)
       /\ limiter' =
            [limiter EXCEPT
                !.tables[own] = st.table,
                !.shadows[inst] = IF entering THEN alone.table ELSE @,
                !.windows = IF entering
                            THEN Counted(@, <<inst, key>>, now, limiter.cfg.windowMs)
                            ELSE @,
                !.reqs[r] =
                    [pc |-> IF q.turn < Len(LimiterTurns) THEN "running"
                            ELSE IF st.admitted THEN "awaiting" ELSE "rejected",
                     inst |-> inst,
                     key |-> key,
                     turn |-> q.turn + 1,
                     t |-> st.t,
                     current |-> IF q.turn < Len(LimiterTurns) THEN st.current
                                 ELSE NoEntry,
                     admitted |-> st.admitted,
                     expected |-> IF entering THEN alone.called ELSE q.expected,
                     nth |-> IF entering
                             THEN Counted(limiter.windows, <<inst, key>>, now,
                                          limiter.cfg.windowMs)[<<inst, key>>].calls
                             ELSE q.nth]]
       /\ UNCHANGED now
       /\ UNCHANGED notLimiter

\* The opts.next() of request r settles.
LimiterNextSettles(r) ==
    /\ limiter.reqs[r].pc = "awaiting"
    /\ limiter' = [limiter EXCEPT !.reqs[r].pc = "done"]
    /\ UNCHANGED now
    /\ UNCHANGED notLimiter

NextLimiter ==
    \/ Tick
    \/ \E r \in 1..MaxInFlight, c \in LimiterCalls : RunRequest(r, c[1], c[2])
    \/ \E r \in 1..MaxInFlight : LimiterNextSettles(r)

\* The event loop runs whatever is ready.
SpecLimiter == InitLimiter /\ [][NextLimiter]_vars /\ WF_vars(NextLimiter)

\* Request r has been admitted or rejected.
Decided(r) == limiter.reqs[r].pc \in {"awaiting", "rejected", "done"}

\* C24 as the code has it: the limiter's body runs in one turn, so under any
\* interleaving of concurrent requests every request is admitted or rejected
\* exactly as when the same calls are made one after another in the order
\* they entered, and the table is the same too.
C24_ConcurrentCallsCountAsSequential ==
    /\ \A r \in 1..MaxInFlight :
          Decided(r) => limiter.reqs[r].admitted = limiter.reqs[r].expected
    /\ (\A r \in 1..MaxInFlight : limiter.reqs[r].pc # "running")
          => limiter.tables = limiter.shadows

\* C24 as stated: some interleaving of concurrent requests admits a call that
\* the calls made one after another would reject, or rejects one they would
\* admit.
C24_SomeInterleavingMiscounts ==
    <>(\E r \in 1..MaxInFlight :
          Decided(r) /\ limiter.reqs[r].admitted # limiter.reqs[r].expected)

\* C26: the entry a limiter holds for a key has the count and the resetTime
\* that the calls made through that instance with that key alone give, and a
\* call is admitted iff it is at most the maxRequests-th of them in its
\* window: calls with another key and calls through another instance change
\* none of it.
C26_CountsDependOnInstanceAndKeyOnly ==
    /\ \A i \in Instances : \A k \in DOMAIN limiter.tables[i] :
          /\ <<i, k>> \in DOMAIN limiter.windows
          /\ limiter.tables[i][k] = [count |-> limiter.windows[<<i, k>>].calls,
                                     resetTime |-> limiter.windows[<<i, k>>].resetTime]
    /\ \A r \in 1..MaxInFlight :
          Decided(r) =>
             (limiter.reqs[r].admitted <=> limiter.reqs[r].nth <= limiter.cfg.maxRequests)

\* User u1 is over the limit at instance 1 and is admitted at instance 2, and
\* instance 1 holds u1's count of 2 untouched by the call to instance 2.
C26_Witness ==
    /\ limiter.cfg.maxRequests = 1
    /\ limiter.reqs[1].pc = "awaiting" /\ limiter.reqs[1].inst = 1
    /\ limiter.reqs[2].pc = "rejected" /\ limiter.reqs[2].inst = 1
    /\ limiter.reqs[3].pc = "awaiting" /\ limiter.reqs[3].inst = 2
    /\ \A r \in 1..3 : limiter.reqs[r].key = "u1"
    /\ limiter.tables[1]["u1"].count = 2
    /\ limiter.tables[2]["u1"].count = 1

\* Three requests of one user at a window boundary, the first still waiting
\* for its next(): the second came within the window and was rejected, the
\* third came after the window had expired and was admitted.
C24_Witness ==
    /\ limiter.cfg.maxRequests = 1
    /\ limiter.reqs[1].pc = "awaiting"
    /\ limiter.reqs[2].pc = "rejected"
    /\ limiter.reqs[3].pc = "awaiting"
    /\ \A r \in 1..3 : limiter.reqs[r].key = "u1" /\ limiter.reqs[r].inst = 1
    /\ limiter.reqs[2].t = limiter.reqs[1].t + limiter.cfg.windowMs
    /\ limiter.reqs[3].t > limiter.reqs[2].t

-----------------------------------------------------------------------------
(* The procedure binder: loggedProcedure and withLogger *)

\* Bound: the most ProcedureBuilder objects created.
MaxBuilders == 4

\* Names of logging scopes.
ScopeNames == {"a", "b"}

\* Two configs whose info-level calls reach different pipelines.
ConfigA ==
    [pipelines |-> <<[level |-> Absent, format |-> Absent, transport |-> "ok"]>>,
     defaultLevel |-> Absent]

ConfigB ==
    [pipelines |-> <<[level |-> "info", format |-> "fmt", transport |-> "ok"],
                     [level |-> Absent, format |-> Absent, transport |-> "ok"]>>,
     defaultLevel |-> "info"]

BinderConfigs == {ConfigA, ConfigB}

\* A builder that has no withLogger property.
Unassigned ==
    [assigned |-> FALSE, base |-> 0,
     config |-> [pipelines |-> <<>>, defaultLevel |-> Absent]]

\* The withLogger closure of loggedProcedure(base, config): it keeps base and
\* config.
WithLoggerOf(base, cfg) == [assigned |-> TRUE, base |-> base, config |-> cfg]

\* const logger: Logger = { error: createLoggerMethod('error'), ... }: a new
\* object at each call of withLogger, whose methods close over name and
\* config. id tells the objects apart; binder is history: the binder that
\* withLogger was called on.
LoggerObject(id, name, cfg, binder) ==
    [id |-> id, name |-> name, config |-> cfg, binder |-> binder]

\* ctx.logger undefined.
NoHandle == LoggerObject(0, Absent, Unassigned.config, [builder |-> 0, config |-> Unassigned.config])

\* base.use(async (opts) => opts.next({ ctx: { ...opts.ctx, logger } })): the
\* middleware closes over the logger object.
LoggerMw(logger) == [kind |-> "logger", logger |-> logger]

\* A middleware of the application, registered with use.
Stage == [kind |-> "stage", logger |-> NoHandle]

\* ProcedureBuilder.use of @trpc/server: a new builder object with the
\* middleware appended; the object it is called on is not changed, and the new
\* object has the builder's own methods only.
UseOn(builder, mw, withLogger) ==
    [middlewares |-> Append(builder.middlewares, mw), withLogger |-> withLogger]

\* Inject with the spread after the logger: a logger already in ctx stays.
InjectUnlessPresent(ctx, logger) ==
    IF ctx.logger.id = 0 THEN [ctx EXCEPT !.logger = logger] ELSE ctx

\* { ...opts.ctx, logger }
Inject(ctx, logger) == [ctx EXCEPT !.logger = logger]

\* What a stage or the handler does with its ctx: ctx.logger.info('msg') when
\* there is a logger; the logger it saw and the transport invocations made.
Seen(ctx) ==
    [logger |-> ctx.logger.id,
     calls |-> IF ctx.logger.id = 0 THEN <<>>
               ELSE LoggerMethod(ctx.logger.config, ctx.logger.name,
                                 "info", "msg", Absent).calls]

RECURSIVE RunChain(_, _, _)
\* One request through the middlewares from position i on and then the
\* handler: per position, and last for the handler, what it saw.
RunChain(chain, i, ctx) ==
    IF i > Len(chain) THEN <<Seen(ctx)>>
    ELSE IF chain[i].kind = "logger"
    THEN <<[logger |-> 0, calls |-> <<>>]>>
         \o RunChain(chain, i + 1, Inject(ctx, chain[i].logger))
    ELSE <<Seen(ctx)>> \o RunChain(chain, i + 1, ctx)

\* t.procedure: the one builder of the application, before any binding.
InitBuilder ==
    /\ IdleValidation
    /\ IdleLimiter
    /\ IdleDispatch
    /\ IdleCombine
    /\ IdlePerf
    /\ IdleMw
    /\ builders = <<[middlewares |-> <<>>, withLogger |-> Unassigned]>>
    /\ binders = {}
    /\ chainRun = [builder |-> 0, seen |-> <<>>]

\* No request made since the builders last changed.
NoRun == [builder |-> 0, seen |-> <<>>]

\* The builders the application itself gives to loggedProcedure: t.procedure
\* and the values use returned. (The values withLogger returned went through
\* loggedProcedure inside withLogger.)
Plain(builder) ==
    IF builder.middlewares = <<>> THEN TRUE
    ELSE builder.middlewares[Len(builder.middlewares)].kind = "stage"

\* loggedProcedure(base, config): Object.assign(base, { withLogger }) writes
\* the property on base itself and returns base.
LoggedProcedure(b, cfg) ==
    /\ Plain(builders[b])
    /\ builders' = [builders EXCEPT ![b].withLogger = WithLoggerOf(b, cfg)]
    /\ binders' = binders \cup {[builder |-> b, config |-> cfg]}
    /\ chainRun' = NoRun
    /\ UNCHANGED notBuilder

\* binder.withLogger(name), binder being a value loggedProcedure returned: the
\* property is read from the object, the logger object is built,
\* base.use(...) makes a new builder, and loggedProcedure(newBuilder, config)
\* is called and its value returned.
BindOn(binder, name) ==
    /\ Len(builders) < MaxBuilders
    /\ LET w == builders[binder.builder].withLogger
           n == Len(builders) + 1
       IN /\ builders' = Append(builders,
                                UseOn(builders[w.base],
                                      LoggerMw(LoggerObject(n, name, w.config, binder)),
                                      WithLoggerOf(n, w.config)))
          /\ binders' = binders \cup {[builder |-> n, config |-> w.config]}
    /\ chainRun' = NoRun
    /\ UNCHANGED notBuilder

\* builder.use(stage), on the builder the application got last.
Use(b) ==
    /\ b = Len(builders)
    /\ Len(builders) < MaxBuilders
    /\ builders' = Append(builders, UseOn(builders[b], Stage, Unassigned))
    /\ chainRun' = NoRun
    /\ UNCHANGED binders
    /\ UNCHANGED notBuilder

\* A request to a procedure built from builder b, the newest: the list of
\* middlewares of a builder never changes once the builder exists.
Invoke(b) ==
    /\ b = Len(builders)
    /\ chainRun' = [builder |-> b,
                    seen |-> RunChain(builders[b].middlewares, 1, [logger |-> NoHandle])]
    /\ UNCHANGED <<builders, binders>>
    /\ UNCHANGED notBuilder

NextBuilder ==
    \/ \E b \in DOMAIN builders, cfg \in BinderConfigs : LoggedProcedure(b, cfg)
    \/ \E binder \in binders, name \in ScopeNames : BindOn(binder, name)
    \/ \E b \in DOMAIN builders : Use(b)
    \/ \E b \in DOMAIN builders : Invoke(b)

SpecBuilder == InitBuilder /\ [][NextBuilder]_vars

\* The logger objects built so far: each is held by the middleware that
\* withLogger registered.
LoggerObjects ==
    UNION {{builders[b].middlewares[i].logger :
               i \in {j \in DOMAIN builders[b].middlewares :
                         builders[b].middlewares[j].kind = "logger"}} :
           b \in DOMAIN builders}

\* C12: loggedProcedure leaves the builder it is given as it was and returns a
\* new binder, so that a logger bound through a binder dispatches to the
\* pipelines of the config that binder was created with, whatever other
\* binders were created from the same base builder.
C12_BindersKeepTheirOwnConfig ==
    \A l \in LoggerObjects :
       \A level \in Levels :
          LoggerMethod(l.config, l.name, level, "msg", Absent)
          = LoggerMethod(l.binder.config, l.name, level, "msg", Absent)

\* C13: in a request through a chain with several bindings, a stage (and the
\* handler) sees the logger of the nearest binding before it, no logger when
\* there is none, and every transport invocation of its log call carries the
\* name of that binding, in the name argument and in the text.
C13_StagesSeeNearestBinding ==
    chainRun.builder # 0 =>
        LET c == builders[chainRun.builder].middlewares
        IN \A i \in 1..(Len(c) + 1) :
              (IF i = Len(c) + 1 THEN TRUE ELSE c[i].kind = "stage") =>
                 LET before == {j \in 1..(i - 1) : c[j].kind = "logger"}
                 IN IF before = {} THEN chainRun.seen[i].logger = 0
                    ELSE LET j == CHOOSE m \in before : \A o \in before : o <= m
                             sent == chainRun.seen[i].calls
                         IN /\ chainRun.seen[i].logger = c[j].logger.id
                            /\ sent # <<>>
                            /\ \A k \in DOMAIN sent :
                                  /\ sent[k].name = c[j].logger.name
                                  /\ sent[k].text \in
                                        {<<"fmt", c[j].logger.name, "msg", Absent>>,
                                         <<"[", "INFO", "] [", c[j].logger.name, "] ",
                                           "msg">>}

\* A request went through withLogger("a"), a stage, withLogger("b"): the stage
\* logged under a and the handler under b.
C13_Witness ==
    /\ chainRun.builder # 0
    /\ Len(builders[chainRun.builder].middlewares) = 3
    /\ builders[chainRun.builder].middlewares[1].kind = "logger"
    /\ builders[chainRun.builder].middlewares[2].kind = "stage"
    /\ builders[chainRun.builder].middlewares[3].kind = "logger"
    /\ chainRun.seen[2].calls # <<>>
    /\ chainRun.seen[2].calls[1].name = "a"
    /\ chainRun.seen[4].calls # <<>>
    /\ chainRun.seen[4].calls[1].name = "b"

\* C20: two logger handles bound with the same name on the same binder are
\* distinct objects that produce the same transport invocations for the same
\* log call.
C20_SameNameSameOutput ==
    \A l1, l2 \in LoggerObjects :
       (l1.binder.builder = l2.binder.builder /\ l1.name = l2.name) =>
          \A level \in Levels, meta \in Metas :
             LoggerMethod(l1.config, l1.name, level, "msg", meta)
             = LoggerMethod(l2.config, l2.name, level, "msg", meta)


\* --------------------------------------------------------------------------
\* createComprehensiveMiddleware (examples/advanced-usage.ts)

\* The config: a section is given or left out; rateLimiting is its
\* maxRequests, 0 for no section; authLogging is the flag itself. A section
\* that is given has its own logging switched on (logErrors, logAllErrors,
\* enabled). logger: whether the request's ctx carries a logger.
ComprehensiveConfig ==
    [logging : BOOLEAN, errorHandling : BOOLEAN, rateLimiting : 0..MaxRequests,
     performance : BOOLEAN, authLogging : BOOLEAN, logger : BOOLEAN]

\* const middlewares = []; one push per section that is given, in this order.
ComprehensiveMiddlewares(cfg) ==
    (IF cfg.logging THEN <<"logging">> ELSE <<>>)
    \o (IF cfg.errorHandling THEN <<"errorHandling">> ELSE <<>>)
    \o (IF cfg.rateLimiting # 0 THEN <<"rateLimiting">> ELSE <<>>)
    \o (IF cfg.performance THEN <<"performance">> ELSE <<>>)
    \o (IF cfg.authLogging THEN <<"authLogging">> ELSE <<>>)

\* createComprehensiveMiddleware(config) has returned
\* combineMiddlewares(...middlewares); no request has been made yet.
InitComprehensive ==
    /\ IdleBuilder
    /\ IdleValidation
    /\ IdleLimiter
    /\ IdleDispatch
    /\ IdlePerf
    /\ IdleMw
    /\ sections \in ComprehensiveConfig
    /\ mws = ComprehensiveMiddlewares(sections)
    /\ terminal \in {"resolves", "throws"}
    /\ cstatus = "idle"
    /\ ctarget = Absent
    /\ cstack = <<>>
    /\ ctrace = <<>>
    /\ cerrLogs = <<>>
    /\ cvalue = Absent

NextComprehensive ==
    \/ CombineCall
    \/ InvokeMiddleware
    \/ RateLimited
    \/ StackOverflow
    \/ InvokeTerminal
    \/ ReturnToMiddleware
    \/ Settle

SpecComprehensive == InitComprehensive /\ [][NextComprehensive]_vars

\* C16: one request through createComprehensiveMiddleware(config) runs exactly
\* the middlewares whose section is given, once each, in the order logging,
\* errorHandling, rateLimiting, performance, authLogging, and then the
\* terminal handler.
C16_RunsEnabledSectionsInFixedOrder ==
    LET order == <<"logging", "errorHandling", "rateLimiting", "performance", "authLogging">>
        given(kind) == IF kind = "rateLimiting" THEN sections.rateLimiting # 0
                       ELSE sections[kind]
        expected == SelectSeq(order, given)
    IN /\ mws = expected
       /\ cstatus = "settled" =>
             /\ Len(ctrace) = Len(expected) + 1
             /\ \A k \in 1..Len(expected) : mws[ctrace[k]] = expected[k]
             /\ ctrace[Len(ctrace)] = 0

\* C16 for a config with no section at all: the request goes straight to the
\* terminal handler.
C16_NoSectionRunsTerminalOnly ==
    (mws = <<>> /\ cstatus = "settled") => ctrace = <<0>>

====
